---- MODULE Spec2Model ----
(***************************************************************************)
(* Model of the electrs REST query layer (src/src/rest.rs) together with   *)
(* the chain indexer and the mempool indexer it reads from.                *)
(*                                                                         *)
(* rest.rs is translated from its source.  The chain indexer, the mempool  *)
(* indexer and the Query/ChainQuery/Mempool methods rest.rs calls live in  *)
(* crates modules outside src/; they are modelled from the written design  *)
(* (spec.md, sections 3, 4.4, 4.5, 4.6).                                    *)
(***************************************************************************)
EXTENDS Integers, Sequences, FiniteSets, TLC

VARIABLES
    nodeChain,    \* upstream node: best chain, a sequence of blocks (block = sequence of txids)
    nodeMempool,  \* upstream node: set of unconfirmed txids
    headers,      \* chain indexer: in-memory header chain (the blocks indexed so far)
    store,        \* chain indexer: the persistent key-value store, one set of rows per key prefix
    mpTxs,        \* mempool indexer: the txid map (txid -> parsed transaction, by TxDef)
    mpHistory,    \* mempool indexer: per-scripthash history lists
    mpSpends,     \* mempool indexer: outpoint -> spend map
    orphans,      \* mempool indexer: orphan queue
    undone,       \* history of the chain indexer: the txids un-indexed by its latest rollbacks
    resp          \* query layer: the request last served and its response

vars == <<nodeChain, nodeMempool, headers, store, mpTxs, mpHistory, mpSpends, orphans, undone, resp>>

-----------------------------------------------------------------------------
(* Bounds *)

\* longest chain the upstream node grows
MaxHeight == 2
\* largest max_txs query parameter a caller sends (0 .. MaxTxsParam)
MaxTxsParam == 2

-----------------------------------------------------------------------------
(* Generic helpers *)

None == [none |-> TRUE]
Some(x) == [some |-> x]

Min(a, b) == IF a <= b THEN a ELSE b

SeqToSet(s) == {s[i] : i \in DOMAIN s}

Take(s, n) == SubSeq(s, 1, Min(n, Len(s)))

\* a set of integers as an ascending sequence
RECURSIVE Ascending(_)
Ascending(S) ==
    IF S = {} THEN <<>>
    ELSE LET m == CHOOSE x \in S : \A y \in S : x <= y
         IN <<m>> \o Ascending(S \ {m})

\* itertools unique(): keep the first occurrence of every element
RECURSIVE Unique(_)
Unique(s) ==
    IF s = <<>> THEN <<>>
    ELSE LET r == Unique(SubSeq(s, 1, Len(s) - 1))
             x == s[Len(s)]
         IN IF x \in SeqToSet(r) THEN r ELSE Append(r, x)

\* skip_while(|t| t != x): drop the elements before the first x (all, if x is absent)
RECURSIVE SkipUntil(_, _)
SkipUntil(s, x) ==
    IF s = <<>> THEN <<>>
    ELSE IF Head(s) = x THEN s
    ELSE SkipUntil(Tail(s), x)

-----------------------------------------------------------------------------
(* The transactions the upstream node can relay.  A txid is the index of    *)
(* the transaction in TxDef; txids order as the raw 32-byte keys do.        *)

ScriptHashes == {"A", "B"}

\* previous_output of a coinbase input
NullOutPoint == [txid |-> 0, vout |-> 0]

OutPoint(t, v) == [txid |-> t, vout |-> v]

TxDef == <<
    \* 1: coinbase paying A
    [ins |-> <<NullOutPoint>>, outs |-> <<[sh |-> "A", value |-> 50]>>],
    \* 2: spends (1,0), pays B and change to A
    [ins |-> <<OutPoint(1, 0)>>,
     outs |-> <<[sh |-> "B", value |-> 30], [sh |-> "A", value |-> 20]>>],
    \* 3: spends (1,0) as well (the other side of a fork), pays A
    [ins |-> <<OutPoint(1, 0)>>, outs |-> <<[sh |-> "A", value |-> 50]>>],
    \* 4: spends (2,0), pays A
    [ins |-> <<OutPoint(2, 0)>>, outs |-> <<[sh |-> "A", value |-> 30]>>]
>>

Txids == DOMAIN TxDef

\* a well-formed txid that no block and no mempool ever holds
UnknownTxid == Len(TxDef) + 1

has_prevout(txin) == txin # NullOutPoint

\* the outpoints a transaction spends / creates
PrevOuts(t) == {TxDef[t].ins[i] : i \in {j \in DOMAIN TxDef[t].ins : has_prevout(TxDef[t].ins[j])}}
OutPointsOf(t) == {OutPoint(t, i - 1) : i \in DOMAIN TxDef[t].outs}
TxOutAt(op) == TxDef[op.txid].outs[op.vout + 1]

-----------------------------------------------------------------------------
(* The upstream node (out of scope of the core; it is the source of the     *)
(* block stream and of the mempool txid set).  The node is trusted for      *)
(* validity: a chain never spends an output twice, a mempool never holds    *)
(* two conflicting transactions.                                            *)

RECURSIVE ChainTxs(_)
ChainTxs(chain) ==
    IF chain = <<>> THEN {} ELSE SeqToSet(Head(chain)) \cup ChainTxs(Tail(chain))

SpentBy(S) == UNION {PrevOuts(t) : t \in S}

Conflicting(S) == \E t, u \in S : t # u /\ PrevOuts(t) \cap PrevOuts(u) # {}

\* S can be mined on top of chain: inputs exist earlier and are unspent
ValidBlock(chain, S) ==
    /\ S \cap ChainTxs(chain) = {}
    /\ ~Conflicting(S)
    /\ \A t \in S : \A op \in PrevOuts(t) :
          /\ op.txid \in ChainTxs(chain) \cup {u \in S : u < t}
          /\ op \notin SpentBy(ChainTxs(chain))

\* the transactions of M (in txid order) that stay valid on top of chain
RECURSIVE KeepValid(_, _, _)
KeepValid(chain, todo, kept) ==
    IF todo = <<>> THEN kept
    ELSE LET t == Head(todo)
             ok == /\ t \notin ChainTxs(chain)
                   /\ PrevOuts(t) # {}
                   /\ \A op \in PrevOuts(t) :
                         /\ op.txid \in ChainTxs(chain) \cup kept
                         /\ op \notin SpentBy(ChainTxs(chain) \cup kept)
         IN KeepValid(chain, Tail(todo), IF ok THEN kept \cup {t} ELSE kept)

MempoolValid(chain, M) == KeepValid(chain, Ascending(M), {})

\* the node accepts a relayed transaction into its mempool
NodeAccept(t) ==
    /\ t \notin nodeMempool
    /\ MempoolValid(nodeChain, nodeMempool \cup {t}) = nodeMempool \cup {t}
    /\ nodeMempool' = nodeMempool \cup {t}
    /\ UNCHANGED <<nodeChain, headers, store, mpTxs, mpHistory, mpSpends, orphans, undone>>
    /\ resp' = None

\* the node drops a transaction (expiry, replacement) and what depends on it
NodeEvict(t) ==
    /\ t \in nodeMempool
    /\ nodeMempool' = MempoolValid(nodeChain, nodeMempool \ {t})
    /\ UNCHANGED <<nodeChain, headers, store, mpTxs, mpHistory, mpSpends, orphans, undone>>
    /\ resp' = None

\* the node connects a block
NodeMine(S) ==
    /\ Len(nodeChain) < MaxHeight
    /\ ValidBlock(nodeChain, S)
    /\ nodeChain' = Append(nodeChain, Ascending(S))
    /\ nodeMempool' = MempoolValid(nodeChain', nodeMempool \ S)
    /\ UNCHANGED <<headers, store, mpTxs, mpHistory, mpSpends, orphans, undone>>
    /\ resp' = None

\* the node disconnects its tip (the first half of a reorg)
NodeDisconnect ==
    /\ nodeChain # <<>>
    /\ nodeChain' = SubSeq(nodeChain, 1, Len(nodeChain) - 1)
    /\ nodeMempool' =
          MempoolValid(nodeChain', nodeMempool \cup SeqToSet(nodeChain[Len(nodeChain)]))
    \* a reorg that starts from an indexer in step with the node starts a new record
    /\ undone' = IF headers = nodeChain THEN {} ELSE undone
    /\ UNCHANGED <<headers, store, mpTxs, mpHistory, mpSpends, orphans>>
    /\ resp' = None

-----------------------------------------------------------------------------
(* Store: an ordered key-value engine.  A family of rows is a set of        *)
(* records; a put replaces the row that has the same key.                   *)

EmptyStore == [txo |-> {}, spend |-> {}, hist |-> {}, stats |-> {}, conf |-> {}]

\* 'O' rows, key (txid, vout)
PutTxo(rows, r) == {x \in rows : x.outpoint # r.outpoint} \cup {r}
\* 'S' rows: found by (prev_txid, prev_vout); the row names the spender and its
\* block, so the rows written for two forks are two rows
PutSpend(rows, r) == rows \cup {r}
\* 'T' rows, key txid (last writer wins)
PutConf(rows, r) == {x \in rows : x.txid # r.txid} \cup {r}
\* 'C' rows, key scripthash
PutStats(rows, r) == {x \in rows : x.sh # r.sh} \cup {r}

\* get() on the 'O' family; the set is empty when the key is absent
GetTxo(st, op) == {x \in st.txo : x.outpoint = op}

ZeroStats(sh) ==
    [sh |-> sh, tx_count |-> 0, funded_count |-> 0, funded_sum |-> 0,
     spent_count |-> 0, spent_sum |-> 0]

GetStats(st, sh) ==
    IF \E x \in st.stats : x.sh = sh
    THEN CHOOSE x \in st.stats : x.sh = sh
    ELSE ZeroStats(sh)

-----------------------------------------------------------------------------
(* Chain indexer (spec.md 4.4)                                              *)

\* the outputs of t that pay sh, and the prev-outputs of t (as found in st) that sh owned
FundedBy(t, sh) == {op \in OutPointsOf(t) : TxOutAt(op).sh = sh}
SpentFrom(st, t, sh) == {x \in UNION {GetTxo(st, op) : op \in PrevOuts(t)} : x.sh = sh}

RECURSIVE SumValues(_)
SumValues(rows) ==
    IF rows = {} THEN 0
    ELSE LET x == CHOOSE y \in rows : TRUE IN x.value + SumValues(rows \ {x})

\* the signed contribution of transaction t to the stats of sh
StatsDelta(st, t, sh) ==
    LET f == {[outpoint |-> op, value |-> TxOutAt(op).value] : op \in FundedBy(t, sh)}
        s == SpentFrom(st, t, sh)
    IN [tx_count     |-> IF f # {} \/ s # {} THEN 1 ELSE 0,
        funded_count |-> Cardinality(f),
        funded_sum   |-> SumValues(f),
        spent_count  |-> Cardinality(s),
        spent_sum    |-> SumValues(s)]

AddStats_unsigned(rows, sh, d, sign) ==
    LET old == IF \E x \in rows : x.sh = sh THEN CHOOSE x \in rows : x.sh = sh ELSE ZeroStats(sh)
    IN PutStats(rows, [sh           |-> sh,
                       tx_count     |-> old.tx_count + d.tx_count,
                       funded_count |-> old.funded_count + d.funded_count,
                       funded_sum   |-> old.funded_sum + d.funded_sum,
                       spent_count  |-> old.spent_count + d.spent_count,
                       spent_sum    |-> old.spent_sum + d.spent_sum])

\* stats rows after adding sign * delta for sh; a row whose counters are all
\* zero is not kept (no residue of a rolled-back block)
AddStats(rows, sh, d, sign) ==
    LET old == IF \E x \in rows : x.sh = sh THEN CHOOSE x \in rows : x.sh = sh ELSE ZeroStats(sh)
        new == [sh           |-> sh,
                tx_count     |-> old.tx_count + sign * d.tx_count,
                funded_count |-> old.funded_count + sign * d.funded_count,
                funded_sum   |-> old.funded_sum + sign * d.funded_sum,
                spent_count  |-> old.spent_count + sign * d.spent_count,
                spent_sum    |-> old.spent_sum + sign * d.spent_sum]
    IN IF new = ZeroStats(sh) THEN {x \in rows : x.sh # sh} ELSE PutStats(rows, new)

RECURSIVE AddStatsAll(_, _, _, _, _)
AddStatsAll(rows, st, t, shs, sign) ==
    IF shs = {} THEN rows
    ELSE LET sh == CHOOSE x \in shs : TRUE
         IN AddStatsAll(AddStats(rows, sh, StatsDelta(st, t, sh), sign), st, t, shs \ {sh}, sign)

RECURSIVE PutAllTxo(_, _)
PutAllTxo(rows, new) ==
    IF new = {} THEN rows
    ELSE LET r == CHOOSE x \in new : TRUE IN PutAllTxo(PutTxo(rows, r), new \ {r})

RECURSIVE PutAllSpend(_, _)
PutAllSpend(rows, new) ==
    IF new = {} THEN rows
    ELSE LET r == CHOOSE x \in new : TRUE IN PutAllSpend(PutSpend(rows, r), new \ {r})

\* forward apply of one transaction confirmed at height h
ApplyTx(st, t, h) ==
    LET tx == TxDef[t]
        withOuts == PutAllTxo(st.txo,
                       {[outpoint |-> op, sh |-> TxOutAt(op).sh, value |-> TxOutAt(op).value]
                          : op \in OutPointsOf(t)})
        \* prev-outputs are looked up in the store as it stood before this transaction
        spends == {[prev |-> tx.ins[i], txid |-> t, vin |-> i - 1, height |-> h]
                     : i \in {j \in DOMAIN tx.ins : has_prevout(tx.ins[j])}}
        funding == {[sh |-> TxOutAt(op).sh, height |-> h, txid |-> t, io |-> "funding"]
                      : op \in OutPointsOf(t)}
        spending == {[sh |-> x.sh, height |-> h, txid |-> t, io |-> "spending"]
                       : x \in UNION {GetTxo(st, op) : op \in PrevOuts(t)}}
    IN [txo   |-> withOuts,
        spend |-> PutAllSpend(st.spend, spends),
        hist  |-> st.hist \cup funding \cup spending,
        stats |-> AddStatsAll(st.stats, st, t, ScriptHashes, 1),
        conf  |-> PutConf(st.conf, [txid |-> t, height |-> h])]

\* the batch of one block: its transactions in block order
RECURSIVE ApplyBlock(_, _, _)
ApplyBlock(st, blk, h) ==
    IF blk = <<>> THEN st
    ELSE ApplyBlock(ApplyTx(st, Head(blk), h), Tail(blk), h)

RollbackTx_keepHistory(st, t, h) ==
    [txo   |-> {x \in st.txo : x.outpoint.txid # t},
     spend |-> {x \in st.spend : x.prev \notin PrevOuts(t)},
     hist  |-> st.hist,
     stats |-> AddStatsAll(st.stats, st, t, ScriptHashes, -1),
     conf  |-> {x \in st.conf : x.txid # t}]

RollbackTx_keepSpends(st, t, h) ==
    [txo   |-> {x \in st.txo : x.outpoint.txid # t},
     spend |-> st.spend,
     hist  |-> {x \in st.hist : ~(x.txid = t /\ x.height = h)},
     stats |-> AddStatsAll(st.stats, st, t, ScriptHashes, -1),
     conf  |-> {x \in st.conf : x.txid # t}]

\* rollback of one transaction of the block at height h: delete the records
\* keyed by its txid, the spend records of its inputs, and subtract its stats
RollbackTx(st, t, h) ==
    [txo   |-> {x \in st.txo : x.outpoint.txid # t},
     spend |-> {x \in st.spend : x.prev \notin PrevOuts(t)},
     hist  |-> {x \in st.hist : ~(x.txid = t /\ x.height = h)},
     stats |-> AddStatsAll(st.stats, st, t, ScriptHashes, -1),
     conf  |-> {x \in st.conf : x.txid # t}]

\* the batch that un-indexes one block: its transactions in reverse block order
RECURSIVE RollbackBlock(_, _, _)
RollbackBlock(st, blk, h) ==
    IF blk = <<>> THEN st
    ELSE RollbackBlock(RollbackTx(st, blk[Len(blk)], h), SubSeq(blk, 1, Len(blk) - 1), h)

IsPrefix(a, b) == Len(a) <= Len(b) /\ SubSeq(b, 1, Len(a)) = a

\* step 3: the local tip is not on the node's best chain: un-index it
\* the chain indexer undoes its tip block
IndexerUndo ==
    /\ ~IsPrefix(headers, nodeChain)
    /\ store' = RollbackBlock(store, headers[Len(headers)], Len(headers))
    /\ headers' = SubSeq(headers, 1, Len(headers) - 1)
    /\ undone' = undone \cup SeqToSet(headers[Len(headers)])
    /\ UNCHANGED <<nodeChain, nodeMempool, mpTxs, mpHistory, mpSpends, orphans>>

IndexerRollback == IndexerUndo /\ resp' = None

\* step 4: index the next block of the node's best chain
\* the chain indexer adds the next block of the node
IndexerAdd ==
    /\ IsPrefix(headers, nodeChain)
    /\ Len(headers) < Len(nodeChain)
    /\ LET blk == nodeChain[Len(headers) + 1]
       IN /\ store' = ApplyBlock(store, blk, Len(headers) + 1)
          /\ headers' = Append(headers, blk)
    /\ UNCHANGED <<nodeChain, nodeMempool, mpTxs, mpHistory, mpSpends, orphans, undone>>

IndexerApply == IndexerAdd /\ resp' = None

-----------------------------------------------------------------------------
(* Mempool indexer (spec.md 4.5)                                            *)

EmptyHistory == [sh \in ScriptHashes |-> <<>>]

\* a prev-output resolves from the chain TxOut index first, then from another
\* mempool transaction
Resolvable(st, txs, op) == GetTxo(st, op) # {} \/ op.txid \in txs

\* the script a prev-output pays, once resolved
ResolvedSh(op) == TxOutAt(op).sh

MempoolRemove_keepSpends(mp, t) ==
    [txs     |-> mp.txs \ {t},
     history |-> [sh \in ScriptHashes |-> SelectSeq(mp.history[sh], LAMBDA e : e.txid # t)],
     spends  |-> mp.spends]

\* step 3: undo the contribution of one removed txid
MempoolRemove(mp, t) ==
    [txs     |-> mp.txs \ {t},
     history |-> [sh \in ScriptHashes |-> SelectSeq(mp.history[sh], LAMBDA e : e.txid # t)],
     spends  |-> {x \in mp.spends : x.txid # t}]

\* step 4: insert one resolved transaction into all parallel indexes
MempoolAdd(mp, t) ==
    LET tx == TxDef[t]
        spending(sh) == IF \E op \in PrevOuts(t) : ResolvedSh(op) = sh
                        THEN <<[txid |-> t, io |-> "spending"]>> ELSE <<>>
        funding(sh) == IF FundedBy(t, sh) # {}
                       THEN <<[txid |-> t, io |-> "funding"]>> ELSE <<>>
    IN [txs     |-> mp.txs \cup {t},
        history |-> [sh \in ScriptHashes |-> mp.history[sh] \o spending(sh) \o funding(sh)],
        spends  |-> {x \in mp.spends : x.prev \notin PrevOuts(t)} \cup
                    {[prev |-> tx.ins[i], txid |-> t, vin |-> i - 1]
                       : i \in {j \in DOMAIN tx.ins : has_prevout(tx.ins[j])}}]

RECURSIVE MempoolRemoveAll(_, _)
MempoolRemoveAll(mp, todo) ==
    IF todo = <<>> THEN mp
    ELSE MempoolRemoveAll(MempoolRemove(mp, Head(todo)), Tail(todo))

\* the added txids in turn: those whose prev-outputs all resolve are indexed
RECURSIVE MempoolAddAll(_, _, _)
MempoolAddAll(st, mp, todo) ==
    IF todo = <<>> THEN mp
    ELSE LET t == Head(todo)
         IN MempoolAddAll(st,
                IF \A op \in PrevOuts(t) : Resolvable(st, mp.txs, op)
                THEN MempoolAdd(mp, t) ELSE mp,
                Tail(todo))

\* one sync tick against the node's current mempool txid set
MempoolUpdate ==
    LET remote  == nodeMempool
        removed == mpTxs \ remote
        added   == remote \ mpTxs
        mp0     == [txs |-> mpTxs, history |-> mpHistory, spends |-> mpSpends]
        mp1     == MempoolRemoveAll(mp0, Ascending(removed))
        mp2     == MempoolAddAll(store, mp1, Ascending(added))
    IN /\ mpTxs' = mp2.txs
       /\ mpHistory' = mp2.history
       /\ mpSpends' = mp2.spends
       \* what could not be resolved waits for the next tick
       /\ orphans' = added \ mp2.txs
       /\ <<mpTxs', orphans'>> # <<mpTxs, orphans>>
       /\ UNCHANGED <<nodeChain, nodeMempool, headers, store, undone>>

MempoolSync == MempoolUpdate /\ resp' = None

-----------------------------------------------------------------------------
(* Query layer: the Mempool / ChainQuery / Query methods rest.rs calls      *)
(* (spec.md 4.5 "Pagination cursor", 4.6)                                   *)

\* Mempool::lookup_txn: the txid map
mempool_lookup_txn(txid) == IF txid \in mpTxs THEN Some(txid) ELSE None

\* ChainQuery::tx_confirming_block: the tx-confirm row, as an Option of the height
tx_confirming_block(txid) ==
    IF \E x \in store.conf : x.txid = txid
    THEN Some((CHOOSE x \in store.conf : x.txid = txid).height)
    ELSE None

\* anchor a list at the cursor and return the entries after it; with no cursor
\* the list is read from the beginning
AfterCursor(ids, last_seen_txid) ==
    IF last_seen_txid = None THEN ids
    ELSE LET from == SkipUntil(ids, last_seen_txid.some)
         IN IF from = <<>> THEN <<>> ELSE Tail(from)

TxidsOf(entries) == [i \in DOMAIN entries |-> entries[i].txid]

RECURSIVE ConcatHistories(_)
ConcatHistories(shs) ==
    IF shs = <<>> THEN <<>> ELSE mpHistory[Head(shs)] \o ConcatHistories(Tail(shs))

\* Mempool::history_group: the next `limit` transactions of the scripthashes'
\* in-memory lists, in list order, after the cursor
MempoolHistoryGroup(shs, last_seen_txid, limit) ==
    Take(AfterCursor(Unique(TxidsOf(ConcatHistories(shs))), last_seen_txid), limit)

\* Mempool::history
MempoolHistory(sh, last_seen_txid, limit) == MempoolHistoryGroup(<<sh>>, last_seen_txid, limit)

\* the history rows in descending key order (height, txid, IOflag)
RowBefore(a, b) ==
    \/ a.height > b.height
    \/ a.height = b.height /\ a.txid > b.txid
    \/ a.height = b.height /\ a.txid = b.txid /\ a.io = "spending" /\ b.io = "funding"

RECURSIVE Descending(_)
Descending(rows) ==
    IF rows = {} THEN <<>>
    ELSE LET m == CHOOSE x \in rows : \A y \in rows \ {x} : RowBefore(x, y)
         IN <<m>> \o Descending(rows \ {m})

\* one row for each (height, txid, IOflag) of the scripthashes
HistoryRows(shs, start_height) ==
    {[height |-> x.height, txid |-> x.txid, io |-> x.io]
       : x \in {y \in store.hist : /\ y.sh \in SeqToSet(shs)
                                   /\ (start_height # None => y.height <= start_height.some)}}

\* ChainQuery::history_group: the confirmed history, newest first, starting
\* after (last_seen_txid, start_height), as (txid, confirming height) pairs
ChainHistoryGroup(shs, last_seen_txid, start_height, limit) ==
    LET ids  == Unique(TxidsOf(Descending(HistoryRows(shs, start_height))))
        rest == SelectSeq(AfterCursor(ids, last_seen_txid),
                          LAMBDA t : tx_confirming_block(t) # None)
    IN [i \in DOMAIN Take(rest, limit) |->
           [txid |-> rest[i], blockid |-> tx_confirming_block(rest[i])]]

\* ChainQuery::history
ChainHistory(sh, last_seen_txid, start_height, limit) ==
    ChainHistoryGroup(<<sh>>, last_seen_txid, start_height, limit)

\* ChainQuery::summary_group / summary: one entry per confirmed transaction
ChainSummaryGroup(shs, last_seen_txid, start_height, limit) ==
    LET page == ChainHistoryGroup(shs, last_seen_txid, start_height, limit)
    IN [i \in DOMAIN page |-> [txid |-> page[i].txid, height |-> page[i].blockid.some]]

ChainSummary(sh, last_seen_txid, start_height, limit) ==
    ChainSummaryGroup(<<sh>>, last_seen_txid, start_height, limit)

\* Query::lookup_txos: the outpoints that resolve, chain first, then mempool
lookup_txos(outpoints) ==
    {op \in outpoints : GetTxo(store, op) # {} \/ op.txid \in mpTxs}

-----------------------------------------------------------------------------
(* rest.rs                                                                  *)

Mempool == [loc |-> "Mempool"]
Chain(height) == [loc |-> "Chain", height |-> height]
NotFound == [loc |-> "None"]

find_txid_lenient(txid) ==
    IF mempool_lookup_txn(txid) # None THEN Mempool
    ELSE IF tx_confirming_block(txid) # None THEN Chain(tx_confirming_block(txid).some)
    ELSE Mempool

find_txid(txid) ==
    IF mempool_lookup_txn(txid) # None THEN Mempool
    ELSE IF tx_confirming_block(txid) # None THEN Chain(tx_confirming_block(txid).some)
    ELSE NotFound

TransactionValue_new_lenient(tx, blockid, txos) == Some([txid |-> tx, status |-> blockid])

\* TransactionValue::new: Err when a prevout of the transaction is missing
TransactionValue_new(tx, blockid, txos) ==
    IF PrevOuts(tx) \subseteq txos
    THEN Some([txid |-> tx, status |-> blockid])
    ELSE None

prepare_txs(txs) ==
    LET outpoints == UNION {PrevOuts(txs[i].txid) : i \in DOMAIN txs}
        prevouts  == lookup_txos(outpoints)
        ok        == SelectSeq(txs, LAMBDA e : TransactionValue_new(e.txid, e.blockid, prevouts) # None)
    IN [i \in DOMAIN ok |-> TransactionValue_new(ok[i].txid, ok[i].blockid, prevouts).some]

HttpError(status, msg) == [status |-> status, error |-> msg]
json_response(value, ttl) == [status |-> "OK", body |-> value, ttl |-> ttl]

\* ttl for static resources (5 years), in seconds
TTL_LONG == 157784630
\* ttl for volatile resources, in seconds
TTL_SHORT == 10
\* reorgs deeper than this are considered unlikely
CONF_FINAL == 10

Unconfirmed(page) == [i \in DOMAIN page |-> [txid |-> page[i], blockid |-> None]]

to_scripthash_lenient(script_str) ==
    Some(IF script_str \in ScriptHashes THEN script_str ELSE "A")

\* to_scripthash on a request element: Ok for the scripthashes of the model
to_scripthash(script_str) == IF script_str \in ScriptHashes THEN Some(script_str) ELSE None

confirmed_block_height_unbound(location) == None

\* the match on the cursor's location: the height the chain page is bound to
confirmed_block_height(location) ==
    IF location = Mempool THEN None ELSE Some(location.height)

\* the chain is consulted when the mempool page leaves room
chain_wanted(txs, max_txs) == Len(txs) < max_txs

\* the cursor handed to the chain page
after_txid_ref(txs, after_txid) == IF txs # <<>> THEN None ELSE after_txid

chain_limit_full(txs, max_txs) == max_txs

\* the limit handed to the chain page
chain_limit(txs, max_txs) == max_txs - Len(txs)

\* GET /{address|scripthash}/{}/txs.  The record keeps, next to the response,
\* the calls the handler made: `mempool` and `chain` are the arguments of the
\* history calls (None: not called) and `location` the resolved cursor.
handle_txs_located(script_hash, max_txs, after_txid, after_txid_location) ==
       IF after_txid_location = NotFound
       THEN [response |-> HttpError("UNPROCESSABLE_ENTITY", "after_txid not found"),
             location |-> after_txid_location, mempool |-> None, chain |-> None,
             mempool_page |-> <<>>, chain_page |-> <<>>]
       ELSE
       LET in_mempool == after_txid_location = Mempool
           mempool_page == IF in_mempool
                           THEN MempoolHistory(script_hash, after_txid, max_txs) ELSE <<>>
           txs == Unconfirmed(mempool_page)
           height == confirmed_block_height(after_txid_location)
           chain_page == IF chain_wanted(txs, max_txs)
                         THEN ChainHistory(script_hash, after_txid_ref(txs, after_txid),
                                           height, chain_limit(txs, max_txs))
                         ELSE <<>>
       IN [response |-> json_response(prepare_txs(txs \o chain_page), TTL_SHORT),
           location |-> after_txid_location,
           mempool  |-> IF in_mempool
                        THEN Some([after |-> after_txid, limit |-> max_txs]) ELSE None,
           chain    |-> IF chain_wanted(txs, max_txs)
                        THEN Some([after |-> after_txid_ref(txs, after_txid), height |-> height,
                                   limit |-> chain_limit(txs, max_txs)])
                        ELSE None,
           mempool_page |-> mempool_page, chain_page |-> chain_page]

handle_txs(script_hash, max_txs, after_txid) ==
    handle_txs_located(script_hash, max_txs, after_txid,
                       IF after_txid # None THEN find_txid(after_txid.some) ELSE Mempool)

\* POST /{addresses|scripthashes}/txs (the body already read as a list of strings)
handle_txs_multi(body, max_txs, after_txid) ==
    LET parsed == SelectSeq(body, LAMBDA str : to_scripthash(str) # None)
        script_hashes == [i \in DOMAIN parsed |-> to_scripthash(parsed[i]).some]
        after_txid_location ==
            IF after_txid # None THEN find_txid(after_txid.some) ELSE Mempool
    IN IF after_txid_location = NotFound
       THEN [response |-> HttpError("UNPROCESSABLE_ENTITY", "after_txid not found"),
             location |-> after_txid_location, mempool |-> None, chain |-> None,
             mempool_page |-> <<>>, chain_page |-> <<>>]
       ELSE
       LET in_mempool == after_txid_location = Mempool
           mempool_page == IF in_mempool
                           THEN MempoolHistoryGroup(script_hashes, after_txid, max_txs) ELSE <<>>
           txs == Unconfirmed(mempool_page)
           height == confirmed_block_height(after_txid_location)
           chain_page == IF chain_wanted(txs, max_txs)
                         THEN ChainHistoryGroup(script_hashes, after_txid_ref(txs, after_txid),
                                                height, chain_limit(txs, max_txs))
                         ELSE <<>>
       IN [response |-> json_response(prepare_txs(txs \o chain_page), TTL_SHORT),
           location |-> after_txid_location,
           mempool  |-> IF in_mempool
                        THEN Some([after |-> after_txid, limit |-> max_txs]) ELSE None,
           chain    |-> IF chain_wanted(txs, max_txs)
                        THEN Some([after |-> after_txid_ref(txs, after_txid), height |-> height,
                                   limit |-> chain_limit(txs, max_txs)])
                        ELSE None,
           mempool_page |-> mempool_page, chain_page |-> chain_page]

\* GET /{address|scripthash}/{}/txs/summary[/{last_seen_txid}]
handle_summary(script_hash, max_txs, last_seen_txid) ==
    LET last_seen_txid_location ==
            IF last_seen_txid # None THEN find_txid(last_seen_txid.some) ELSE Mempool
    IN IF last_seen_txid_location = NotFound
       THEN [response |-> HttpError("UNPROCESSABLE_ENTITY", "after_txid not found"),
             location |-> last_seen_txid_location, mempool |-> None, chain |-> None,
             mempool_page |-> <<>>, chain_page |-> <<>>]
       ELSE
       LET height == confirmed_block_height(last_seen_txid_location)
           summary == ChainSummary(script_hash, last_seen_txid, height, max_txs)
       IN [response |-> json_response(summary, TTL_SHORT),
           location |-> last_seen_txid_location,
           mempool  |-> None,
           chain    |-> Some([after |-> last_seen_txid, height |-> height, limit |-> max_txs]),
           mempool_page |-> <<>>, chain_page |-> <<>>]

\* POST /{addresses|scripthashes}/txs/summary[/{last_seen_txid}]
handle_summary_multi(body, max_txs, last_seen_txid) ==
    LET parsed == SelectSeq(body, LAMBDA str : to_scripthash(str) # None)
        script_hashes == [i \in DOMAIN parsed |-> to_scripthash(parsed[i]).some]
        last_seen_txid_location ==
            IF last_seen_txid # None THEN find_txid(last_seen_txid.some) ELSE Mempool
    IN IF last_seen_txid_location = NotFound
       THEN [response |-> HttpError("UNPROCESSABLE_ENTITY", "after_txid not found"),
             location |-> last_seen_txid_location, mempool |-> None, chain |-> None,
             mempool_page |-> <<>>, chain_page |-> <<>>]
       ELSE
       LET height == confirmed_block_height(last_seen_txid_location)
           summary == ChainSummaryGroup(script_hashes, last_seen_txid, height, max_txs)
       IN [response |-> json_response(summary, TTL_SHORT),
           location |-> last_seen_txid_location,
           mempool  |-> None,
           chain    |-> Some([after |-> last_seen_txid, height |-> height, limit |-> max_txs]),
           mempool_page |-> <<>>, chain_page |-> <<>>]

-----------------------------------------------------------------------------
(* Requests.  A query parameter is an Option: None when the parameter is    *)
(* absent or does not parse.                                                *)

\* Config (set by the operator)
rest_default_max_mempool_txs == MaxTxsParam
rest_default_max_address_summary_txs == MaxTxsParam - 1

\* query_params.get("max_txs").and_then(parse).unwrap_or(default)
max_txs_or(param, default) == IF param = None THEN default ELSE param.some

MaxTxsParams == {None} \cup {Some(n) : n \in 0..MaxTxsParam}
Cursors == {None} \cup {Some(t) : t \in Txids \cup {UnknownTxid}}
Bodies == {<<"A", "B">>, <<"B">>, <<"zz", "A">>}

EnvVars == <<nodeChain, nodeMempool, headers, store, mpTxs, mpHistory, mpSpends, orphans, undone>>

Served(endpoint, script_hashes, max_txs, cursor, result) ==
    [endpoint |-> endpoint, script_hashes |-> script_hashes, max_txs |-> max_txs,
     cursor |-> cursor, result |-> result, pages |-> <<>>]

GetTxs(script_str, max_param, after_txid) ==
    LET max_txs == max_txs_or(max_param, rest_default_max_mempool_txs)
    IN /\ resp = None
       /\ resp' = Served("txs", <<script_str>>, max_txs, after_txid,
                         handle_txs(script_str, max_txs, after_txid))
       /\ UNCHANGED EnvVars

PostTxs(body, max_param, after_txid) ==
    LET max_txs == max_txs_or(max_param, rest_default_max_mempool_txs)
    IN /\ resp = None
       /\ resp' = Served("txs_multi", body, max_txs, after_txid,
                         handle_txs_multi(body, max_txs, after_txid))
       /\ UNCHANGED EnvVars

\* the summary handlers' max_txs, without the clamp
summary_max_txs_unclamped(max_param) ==
    max_txs_or(max_param, rest_default_max_address_summary_txs)

\* cmp::min(config.rest_default_max_address_summary_txs, max_txs param or
\* config.rest_default_max_address_summary_txs)
summary_max_txs(max_param) ==
    Min(rest_default_max_address_summary_txs,
        max_txs_or(max_param, rest_default_max_address_summary_txs))

GetSummary(script_str, max_param, last_seen_txid) ==
    LET max_txs == summary_max_txs(max_param)
    IN /\ resp = None
       /\ resp' = Served("summary", <<script_str>>, max_txs, last_seen_txid,
                         handle_summary(script_str, max_txs, last_seen_txid))
       /\ UNCHANGED EnvVars

PostSummary(body, max_param, last_seen_txid) ==
    LET max_txs == summary_max_txs(max_param)
    IN /\ resp = None
       /\ resp' = Served("summary_multi", body, max_txs, last_seen_txid,
                         handle_summary_multi(body, max_txs, last_seen_txid))
       /\ UNCHANGED EnvVars

\* A caller that pages through GET .../txs over the current chain and mempool
\* state: after_txid is the last item of the previous page, until a page is
\* empty (or not OK).  The caller gives up after PageFuel pages.
PageFuel == 2 * Len(TxDef) + 2

RECURSIVE txs_pages(_, _, _, _)
txs_pages(script_str, max_txs, after_txid, fuel) ==
    LET r == handle_txs(script_str, max_txs, after_txid).response
    IN IF r.status # "OK" \/ r.body = <<>> \/ fuel = 0
       THEN <<r>>
       ELSE <<r>> \o txs_pages(script_str, max_txs, Some(r.body[Len(r.body)].txid), fuel - 1)

Paginate(script_str, max_param) ==
    LET max_txs == max_txs_or(max_param, rest_default_max_mempool_txs)
    IN /\ resp = None
       /\ max_txs >= 1
       /\ resp' = [Served("paginate", <<script_str>>, max_txs, None, None)
                     EXCEPT !.pages = txs_pages(script_str, max_txs, None, PageFuel)]
       /\ UNCHANGED EnvVars

-----------------------------------------------------------------------------

Init ==
    /\ nodeChain = <<>>
    /\ nodeMempool = {}
    /\ headers = <<>>
    /\ store = EmptyStore
    /\ mpTxs = {}
    /\ mpHistory = EmptyHistory
    /\ mpSpends = {}
    /\ orphans = {}
    /\ undone = {}
    /\ resp = None

\* the upstream node growing its chain and its mempool
NodeForward ==
    \/ \E t \in Txids : NodeAccept(t)
    \/ \E t \in Txids : NodeEvict(t)
    \/ \E S \in SUBSET Txids : NodeMine(S)

Requests ==
    \/ \E sh \in ScriptHashes, m \in MaxTxsParams, c \in Cursors : GetTxs(sh, m, c)
    \/ \E b \in Bodies, m \in MaxTxsParams, c \in Cursors : PostTxs(b, m, c)
    \/ \E sh \in ScriptHashes, m \in MaxTxsParams, c \in Cursors : GetSummary(sh, m, c)
    \/ \E b \in Bodies, m \in MaxTxsParams, c \in Cursors : PostSummary(b, m, c)
    \/ \E sh \in ScriptHashes, m \in MaxTxsParams : Paginate(sh, m)

\* The query layer serving requests while the node's chain and mempool grow
\* and the two indexers follow them.
Next ==
    \/ NodeForward
    \/ IndexerApply
    \/ MempoolSync
    \/ Requests

Spec == Init /\ [][Next]_vars

\* The two indexers following a node that also reorganises its chain.
NextIndexers ==
    \/ NodeForward
    \/ NodeDisconnect
    \/ IndexerRollback
    \/ IndexerApply
    \/ MempoolSync

SpecIndexers == Init /\ [][NextIndexers]_vars

-----------------------------------------------------------------------------
(* Properties of the merged history (Rule M)                                *)

TxsServed == resp # None /\ resp.endpoint \in {"txs", "txs_multi"}
AnyServed == resp # None /\ resp.endpoint \in {"txs", "txs_multi", "summary", "summary_multi"}

\* the scripthashes a served request asked about
ServedScriptHashes == SelectSeq(resp.script_hashes, LAMBDA str : str \in ScriptHashes)

Confirmed(t) == \E x \in store.conf : x.txid = t
HeightOf(t) == (CHOOSE x \in store.conf : x.txid = t).height

\* every history entry of a scripthash: the mempool entries in list order, then
\* the chain entries, newest first
FullHistory(sh) ==
    LET m == Unique(TxidsOf(mpHistory[sh]))
        c == Unique(TxidsOf(Descending(HistoryRows(<<sh>>, None))))
    IN [i \in DOMAIN m |-> [txid |-> m[i], status |-> None]] \o
       [i \in DOMAIN c |-> [txid |-> c[i], status |-> Some(HeightOf(c[i]))]]

RECURSIVE ConcatBodies(_)
ConcatBodies(pages) ==
    IF pages = <<>> THEN <<>>
    ELSE (IF Head(pages).status = "OK" THEN Head(pages).body ELSE <<>>)
         \o ConcatBodies(Tail(pages))

\* C1: Pagination totality.  Paging through GET .../txs with after_txid set to
\* the last item of the previous page, over a fixed chain and mempool state and
\* with max_txs >= 1, ends with an empty page and has returned every history
\* entry of the scripthash (mempool entries, then chain entries) exactly once,
\* in order.
C1_PaginationTotality ==
    (resp # None /\ resp.endpoint = "paginate") =>
        /\ \A i \in DOMAIN resp.pages : resp.pages[i].status = "OK"
        /\ resp.pages[Len(resp.pages)].body = <<>>
        /\ ConcatBodies(resp.pages) = FullHistory(resp.script_hashes[1])

\* C2: Rule M, cursor in the mempool.  When after_txid is found in the mempool,
\* the mempool page is read after it, and the chain page, when it is read, is
\* requested with no txid and no height constraint, whatever the length of the
\* mempool page (zero included).
C2_MempoolCursorChainUnconstrained ==
    (TxsServed /\ resp.cursor # None /\ resp.cursor.some \in mpTxs) =>
        /\ resp.result.mempool = Some([after |-> resp.cursor, limit |-> resp.max_txs])
        /\ resp.result.chain # None =>
              /\ resp.result.chain.some.after = None
              /\ resp.result.chain.some.height = None

\* C3: Rule M, cursor in the chain.  When after_txid is not in the mempool and
\* is confirmed at height h, the mempool is not read and the response holds no
\* unconfirmed transaction; the chain page is requested after (after_txid, h)
\* with the full max_txs limit (with max_txs = 0 no page is requested at all),
\* and the response is that page.
C3_ChainCursorSkipsMempool ==
    (TxsServed /\ resp.cursor # None /\ resp.cursor.some \notin mpTxs
       /\ Confirmed(resp.cursor.some)) =>
        LET h == HeightOf(resp.cursor.some)
            r == resp.result
        IN /\ r.response.status = "OK"
           /\ r.mempool = None
           /\ \A i \in DOMAIN r.response.body : r.response.body[i].status # None
           /\ r.chain = IF resp.max_txs >= 1
                        THEN Some([after |-> resp.cursor, height |-> Some(h),
                                   limit |-> resp.max_txs])
                        ELSE None
           /\ r.response.body =
                 prepare_txs(ChainHistoryGroup(ServedScriptHashes, resp.cursor, Some(h),
                                               resp.max_txs))

C3_Witness ==
    /\ TxsServed /\ resp.cursor # None /\ resp.cursor.some \notin mpTxs
    /\ Confirmed(resp.cursor.some)
    /\ mpTxs # {}
    /\ resp.result.response.status = "OK"
    /\ resp.result.response.body # <<>>

\* C4: Unknown cursor.  On the four cursor-taking history endpoints a cursor
\* txid that is in neither the mempool nor the chain fails the call with
\* UNPROCESSABLE_ENTITY; no history is read and no data is returned.
C4_UnknownCursorRejected ==
    (AnyServed /\ resp.cursor # None /\ resp.cursor.some \notin mpTxs
       /\ ~Confirmed(resp.cursor.some)) =>
        /\ resp.result.response = HttpError("UNPROCESSABLE_ENTITY", "after_txid not found")
        /\ resp.result.mempool = None
        /\ resp.result.chain = None

C4_Witness ==
    /\ resp # None /\ resp.endpoint = "summary_multi"
    /\ resp.cursor # None /\ resp.cursor.some \notin mpTxs /\ ~Confirmed(resp.cursor.some)
    /\ store.hist # {} /\ mpTxs # {}
    /\ resp.result.response.status = "UNPROCESSABLE_ENTITY"

\* C5: with no cursor the merged history is mempool_page followed by
\* chain_page: unconfirmed transactions precede confirmed ones, the chain is
\* consulted only when the mempool page holds fewer than max_txs entries, with
\* the limit max_txs minus the mempool page length, and the combined list never
\* exceeds max_txs entries.
C5_MempoolThenChain ==
    (TxsServed /\ resp.cursor = None) =>
        LET r    == resp.result
            body == r.response.body
            mp   == MempoolHistoryGroup(ServedScriptHashes, None, resp.max_txs)
        IN /\ r.response.status = "OK"
           /\ r.mempool_page = mp
           /\ r.chain # None <=> Len(mp) < resp.max_txs
           /\ r.chain # None =>
                 /\ r.chain.some.limit = resp.max_txs - Len(mp)
                 /\ r.chain_page = ChainHistoryGroup(ServedScriptHashes, None, None,
                                                     resp.max_txs - Len(mp))
           /\ body = prepare_txs(Unconfirmed(mp) \o r.chain_page)
           /\ \A i, j \in DOMAIN body :
                 (body[i].status # None /\ body[j].status = None) => j < i
           /\ Len(r.mempool_page) + Len(r.chain_page) <= resp.max_txs
           /\ Len(body) <= resp.max_txs

C5_Witness ==
    /\ TxsServed /\ resp.cursor = None
    /\ resp.result.response.status = "OK"
    /\ \E i, j \in DOMAIN resp.result.response.body :
          /\ resp.result.response.body[i].status = None
          /\ resp.result.response.body[j].status # None
    /\ Len(resp.result.response.body) = resp.max_txs
    /\ Len(FullHistory(resp.script_hashes[Len(resp.script_hashes)])) > resp.max_txs

\* C6: Confirmed record preferred.  While a transaction is both in the mempool
\* state and confirmed in the chain, a merged history response lists it at most
\* once and as confirmed, and a cursor naming it is resolved as a chain cursor.
C6_ConfirmedPreferred ==
    TxsServed =>
        \A t \in {u \in mpTxs : Confirmed(u)} :
            /\ resp.cursor = Some(t) => resp.result.location = Chain(HeightOf(t))
            /\ resp.result.response.status = "OK" =>
                  LET body == resp.result.response.body
                  IN /\ Cardinality({i \in DOMAIN body : body[i].txid = t}) <= 1
                     /\ \A i \in DOMAIN body : body[i].txid = t => body[i].status # None

-----------------------------------------------------------------------------
(* Properties of the chain index and of the mempool index                   *)

\* the store obtained by applying the blocks of a chain straight through
RECURSIVE ApplyChain(_, _, _)
ApplyChain(st, chain, h) ==
    IF chain = <<>> THEN st
    ELSE ApplyChain(ApplyBlock(st, Head(chain), h), Tail(chain), h + 1)

\* C7: Reorg idempotence.  Whatever blocks were applied, rolled back and
\* re-applied, the derived rows of the store are those of applying the blocks
\* of the current header chain straight through: no residue, nothing missing.
C7_ReorgIdempotence == store = ApplyChain(EmptyStore, headers, 1)

C7_Witness ==
    /\ undone # {}
    /\ headers = nodeChain
    /\ Len(headers) = MaxHeight
    /\ ChainTxs(headers) \cap undone # {}
    /\ store.spend # {}

\* the explicit values of the chain outputs of sh that have no chain Spend row
UnspentValue(sh) ==
    SumValues({x \in store.txo : x.sh = sh /\ ~\E sp \in store.spend : sp.prev = x.outpoint})

\* C8: Stats consistency.  After any sequence of block applies and rollbacks,
\* for every scripthash funded_sum - spent_sum equals the sum of the values of
\* its chain outputs that have no chain Spend row.
C8_StatsConsistency ==
    \A sh \in ScriptHashes :
        GetStats(store, sh).funded_sum - GetStats(store, sh).spent_sum = UnspentValue(sh)

C8_Witness ==
    /\ undone # {}
    /\ \E sh \in ScriptHashes :
          /\ GetStats(store, sh).spent_sum > 0
          /\ UnspentValue(sh) > 0

\* C9: Spend uniqueness.  In every store state, also after a reorg in which the
\* two forks spend the same prev-output, each outpoint has at most one chain
\* Spend row.
C9_SpendUniqueness ==
    \A x, y \in store.spend : x.prev = y.prev => x = y

C9_Witness ==
    \E t \in undone, u \in ChainTxs(headers) :
        /\ t # u
        /\ PrevOuts(t) \cap PrevOuts(u) # {}
        /\ \E x \in store.spend : x.txid = u /\ x.prev \in PrevOuts(t)

\* C10: Mempool closure.  After every sync tick the spending txid of every
\* mempool-spend entry and the txid of every per-scripthash mempool history
\* entry is in the mempool txid map.
C10_MempoolClosure ==
    /\ \A x \in mpSpends : x.txid \in mpTxs
    /\ \A sh \in ScriptHashes : \A i \in DOMAIN mpHistory[sh] : mpHistory[sh][i].txid \in mpTxs

\* a transaction was indexed on top of a mempool parent that a later tick removed
C10_Witness ==
    /\ \E t \in mpTxs : \E op \in PrevOuts(t) :
          /\ op.txid \notin mpTxs
          /\ GetTxo(store, op) = {}
          /\ op.txid \notin undone
    /\ mpSpends # {}
    /\ \E sh \in ScriptHashes : mpHistory[sh] # <<>>

-----------------------------------------------------------------------------
(* Block and transaction lookups, and their cache lifetime                  *)
(*                                                                         *)
(* A block is named by its hash; the model writes the hash of the block    *)
(* at height h with content blk as the pair of both.  The tip of a chain   *)
(* of n blocks has height n.                                               *)

\* longest chain of the caching specification: a block can be CONF_FINAL deep and more
MaxTipHeight == 12

\* Config (set by the operator)
rest_default_chain_txs_per_page == 2

BlockHashOf(h, blk) == [height |-> h, txs |-> blk]

\* a well-formed hash of no block
UnknownBlockHash == BlockHashOf(0, <<>>)

\* ChainQuery::best_height
best_height == Len(headers)

\* ChainQuery::header_by_height
header_by_height(height) ==
    IF height \in DOMAIN headers THEN Some(BlockHashOf(height, headers[height])) ELSE None

\* ChainQuery::blockid_by_hash: the BlockId of a block of the best chain
blockid_by_hash(hash) ==
    IF hash.height \in DOMAIN headers /\ headers[hash.height] = hash.txs
    THEN Some([height |-> hash.height, hash |-> hash])
    ELSE None

\* ChainQuery::get_block_txids
get_block_txids(hash) == IF blockid_by_hash(hash) # None THEN Some(hash.txs) ELSE None

\* ChainQuery::get_block_with_meta
get_block_with_meta(hash) ==
    IF blockid_by_hash(hash) # None
    THEN Some([id |-> hash, height |-> hash.height, tx_count |-> Len(hash.txs)])
    ELSE None

\* ChainQuery::get_block_status
get_block_status(hash) ==
    LET id == blockid_by_hash(hash)
    IN [in_best_chain |-> id # None,
        height |-> IF id # None THEN Some(id.some.height) ELSE None,
        next_best |-> IF id # None THEN header_by_height(id.some.height + 1) ELSE None]

\* Query::lookup_txn: the mempool, then the chain
lookup_txn(txid) ==
    IF mempool_lookup_txn(txid) # None \/ tx_confirming_block(txid) # None
    THEN Some(txid) ELSE None

http_message(status, message, ttl) == [status |-> status, body |-> message, ttl |-> ttl]

not_found(msg) == HttpError("NOT_FOUND", msg)

\* a >= b + c computed as the code does, a - b >= c on usize: without overflow
\* checks a difference below zero wraps to 2^64 - (b - a), which is >= c
usize_sub_ge(a, b, c) == IF a >= b THEN a - b >= c ELSE TRUE

\* with overflow checks the same subtraction panics instead
usize_sub_overflows(a, b) == a < b

ttl_by_depth_shallow(height) ==
    IF height = None THEN TTL_SHORT
    ELSE IF usize_sub_ge(best_height, height.some, CONF_FINAL - 1) THEN TTL_LONG ELSE TTL_SHORT

ttl_by_depth(height) ==
    IF height = None THEN TTL_SHORT
    ELSE IF usize_sub_ge(best_height, height.some, CONF_FINAL) THEN TTL_LONG ELSE TTL_SHORT

\* GET /block-height/{height}; the path element is None when it is no number
handle_block_height(height) ==
    IF height = None THEN HttpError("BAD_REQUEST", "Invalid number")
    ELSE IF header_by_height(height.some) = None THEN not_found("Block not found")
    ELSE http_message("OK", header_by_height(height.some).some, ttl_by_depth(height))

\* GET /block/{hash}; the path element is None when it is no hash
handle_block(hash) ==
    IF hash = None THEN HttpError("BAD_REQUEST", "Invalid hash string")
    ELSE IF get_block_with_meta(hash.some) = None THEN not_found("Block not found")
    ELSE json_response(get_block_with_meta(hash.some).some, TTL_LONG)

\* GET /block/{hash}/status
handle_block_status(hash) ==
    IF hash = None THEN HttpError("BAD_REQUEST", "Invalid hash string")
    ELSE LET status == get_block_status(hash.some)
         IN json_response(status, ttl_by_depth(status.height))

\* GET /block/{hash}/txs[/{start_index}]; start_index is None when the path
\* element is absent or no number
\* the two tests of the start index, the multiple first
start_index_check_multiple_first(start_index, len) ==
    IF start_index % rest_default_chain_txs_per_page # 0 THEN "not_multiple"
    ELSE IF start_index >= len THEN "out_of_range"
    ELSE "ok"

\* if start_index >= txids.len() .. else if start_index % per_page != 0 ..
start_index_check(start_index, len) ==
    IF start_index >= len THEN "out_of_range"
    ELSE IF start_index % rest_default_chain_txs_per_page # 0 THEN "not_multiple"
    ELSE "ok"

handle_block_txs(hash, start_index) ==
    IF hash = None THEN HttpError("BAD_REQUEST", "Invalid hash string")
    ELSE IF get_block_txids(hash.some) = None THEN not_found("Block not found")
    ELSE
    LET txids == get_block_txids(hash.some).some
        start == IF start_index = None THEN 0 ELSE start_index.some
    IN IF start_index_check(start, Len(txids)) = "out_of_range"
       THEN not_found("start index out of range")
       ELSE IF start_index_check(start, Len(txids)) = "not_multiple"
       THEN HttpError("BAD_REQUEST", "start index must be a multipication of")
       ELSE
       LET confirmed_blockid == blockid_by_hash(hash.some)
           page == Take(SubSeq(txids, start + 1, Len(txids)), rest_default_chain_txs_per_page)
           blockid == IF confirmed_blockid = None THEN None
                      ELSE Some(confirmed_blockid.some.height)
       IN IF \E i \in DOMAIN page : lookup_txn(page[i]) = None
          THEN HttpError("BAD_REQUEST", "missing tx")
          ELSE json_response(
                   prepare_txs([i \in DOMAIN page |-> [txid |-> page[i], blockid |-> blockid]]),
                   ttl_by_depth(blockid))

\* GET /tx/{txid}
handle_tx(hash) ==
    IF hash = None THEN HttpError("BAD_REQUEST", "Invalid hash string")
    ELSE IF lookup_txn(hash.some) = None THEN not_found("Transaction not found")
    ELSE
    LET blockid == tx_confirming_block(hash.some)
        ttl == ttl_by_depth(blockid)
        tx == prepare_txs(<<[txid |-> hash.some, blockid |-> blockid]>>)
    IN IF tx = <<>>
       THEN http_message("INTERNAL_SERVER_ERROR", "Transaction missing prevouts", 0)
       ELSE json_response(tx[1], ttl)

\* a request outside the merged history, and its response
Answered(endpoint, args, result) == [endpoint |-> endpoint, args |-> args, result |-> result]

GetBlockHeight(height) ==
    /\ resp = None
    /\ resp' = Answered("block-height", <<height>>, handle_block_height(height))
    /\ UNCHANGED EnvVars

GetBlock(hash) ==
    /\ resp = None
    /\ resp' = Answered("block", <<hash>>, handle_block(hash))
    /\ UNCHANGED EnvVars

GetBlockStatus(hash) ==
    /\ resp = None
    /\ resp' = Answered("block_status", <<hash>>, handle_block_status(hash))
    /\ UNCHANGED EnvVars

GetBlockTxs(hash, start_index) ==
    /\ resp = None
    /\ resp' = Answered("block_txs", <<hash, start_index>>, handle_block_txs(hash, start_index))
    /\ UNCHANGED EnvVars

GetTx(hash) ==
    /\ resp = None
    /\ resp' = Answered("tx", <<hash>>, handle_tx(hash))
    /\ UNCHANGED EnvVars

\* the node mines a block that holds none of the transactions of TxDef
NodeExtend ==
    /\ MaxHeight <= Len(nodeChain)
    /\ Len(nodeChain) < MaxTipHeight
    /\ nodeChain' = Append(nodeChain, <<>>)
    /\ UNCHANGED <<nodeMempool, headers, store, mpTxs, mpHistory, mpSpends, orphans, undone>>
    /\ resp' = None

\* the hashes a caller can know: the blocks of the node, and a hash of no block
BlockHashes ==
    {None, Some(UnknownBlockHash)}
        \cup {Some(BlockHashOf(h, nodeChain[h])) : h \in DOMAIN nodeChain}

StartIndexes == {None} \cup {Some(n) : n \in 0..(rest_default_chain_txs_per_page + 1)}

\* the transactions of the caching specification
TtlTxids == {1, 2}

NodeTtl ==
    \/ \E S \in SUBSET TtlTxids : NodeMine(S)
    \/ NodeExtend
    \/ \E t \in TtlTxids : NodeAccept(t)

BlockRequests ==
    \/ \E h \in {None} \cup {Some(n) : n \in 0..(MaxTipHeight + 1)} : GetBlockHeight(h)
    \/ \E hash \in BlockHashes : GetBlock(hash)
    \/ \E hash \in BlockHashes : GetBlockStatus(hash)
    \/ \E hash \in BlockHashes, i \in StartIndexes : GetBlockTxs(hash, i)
    \/ \E t \in {None} \cup {Some(x) : x \in TtlTxids \cup {UnknownTxid}} : GetTx(t)

NextTtl ==
    \/ NodeTtl
    \/ IndexerApply
    \/ MempoolSync
    \/ BlockRequests

\* A node that grows a long chain, the indexers, and the block and transaction lookups.
SpecTtl == Init /\ [][NextTtl]_vars

-----------------------------------------------------------------------------
(* Properties of the cache lifetime                                         *)

\* a served lookup whose handler derives the lifetime from a height
DepthCached ==
    /\ resp # None
    /\ resp.endpoint \in {"block-height", "block_status", "block_txs", "tx"}
    /\ resp.result.status = "OK"

\* the height of the block or transaction a served lookup is about: None when
\* it is not in the best chain
EntityHeight ==
    CASE resp.endpoint = "block-height" -> resp.args[1]
      [] resp.endpoint \in {"block", "block_status", "block_txs"} ->
            IF \E h \in DOMAIN headers : BlockHashOf(h, headers[h]) = resp.args[1].some
            THEN Some(resp.args[1].some.height) ELSE None
      [] resp.endpoint = "tx" ->
            IF Confirmed(resp.args[1].some) THEN Some(HeightOf(resp.args[1].some)) ELSE None

C12_BlockCachedByDepth ==
    (/\ resp # None
     /\ resp.endpoint \in {"block", "block_txs"}
     /\ resp.result.status = "OK")
    => resp.result.ttl =
           IF EntityHeight # None /\ Len(headers) - EntityHeight.some + 1 >= 10
           THEN TTL_LONG ELSE TTL_SHORT

-----------------------------------------------------------------------------
(* Broadcast and test_accept (spec.md 4.8)                                  *)
(*                                                                         *)
(* A submitted transaction is a string; the model keeps its length in      *)
(* characters, whether all its characters are hex digits, and whether the  *)
(* upstream node would accept the transaction it encodes.                  *)

\* longest list of transactions a caller submits to test_accept
MaxTestTxs == 26

TxHex(len, hex, accept) == [len |-> len, hex |-> hex, accept |-> accept]

\* Vec::<u8>::from_hex
from_hex(txhex) == IF txhex.hex /\ txhex.len % 2 = 0 THEN Some(txhex.len \div 2) ELSE None

\* the txid of the transaction a string encodes
TxidOfHex(txhex) == [txid_of |-> txhex]

\* an error of the query layer: description() is the text of the error
QueryError(text) == [description |-> text]
Ok(value) == [ok |-> value]
Err(e) == [err |-> e]
is_ok(result) == DOMAIN result = {"ok"}

\* the upstream node: a failure of the RPC (None: the RPC goes through)
NodeFaults == {None, Some("RPC timed out")}

\* the upstream node on sendrawtransaction
NodeSendRawTransaction(txhex, fault) ==
    IF fault # None THEN Err(fault.some)
    ELSE IF from_hex(txhex) = None THEN Err("TX decode failed")
    ELSE IF ~txhex.accept THEN Err("bad-txns-inputs-missingorspent")
    ELSE Ok(TxidOfHex(txhex))

\* the upstream node on testmempoolaccept: one verdict per transaction
NodeTestMempoolAccept(txhexes, maxfeerate, fault) ==
    IF fault # None THEN Err(fault.some)
    ELSE Ok([i \in DOMAIN txhexes |->
                [txid |-> TxidOfHex(txhexes[i]),
                 allowed |-> from_hex(txhexes[i]) # None /\ txhexes[i].accept]])

\* the cheap checks of the broadcast component: the hex parses, and the length
\* is within [60, 400_000]
broadcast_cheap_checks(txhex) ==
    /\ from_hex(txhex) # None
    /\ 60 <= from_hex(txhex).some
    /\ from_hex(txhex).some <= 400000

\* Query::broadcast_raw: cheap checks, then the node; a failure carries the
\* node's error text verbatim
broadcast_raw(txhex, fault) ==
    IF ~broadcast_cheap_checks(txhex) THEN Err(QueryError("invalid transaction"))
    ELSE LET reply == NodeSendRawTransaction(txhex, fault)
         IN IF is_ok(reply) THEN reply ELSE Err(QueryError(reply.err))

\* Query::test_mempool_accept
test_mempool_accept(txhexes, maxfeerate, fault) ==
    LET reply == NodeTestMempoolAccept(txhexes, maxfeerate, fault)
    IN IF is_ok(reply) THEN reply ELSE Err(QueryError(reply.err))

broadcast_error_generic(err) == HttpError("BAD_REQUEST", "broadcast failed")

\* .map_err(|err| HttpError::from(err.description().to_string()))
broadcast_error(err) == HttpError("BAD_REQUEST", err.description)

\* GET /broadcast?tx= and POST /tx.  txhex is None when the tx parameter is
\* missing (GET) or the body is no UTF-8 (POST).  `node` tells whether the
\* upstream node was consulted.
handle_broadcast(method, txhex, fault) ==
    IF txhex = None
    THEN [response |-> HttpError("BAD_REQUEST",
                                 IF method = "GET" THEN "Missing tx" ELSE "invalid utf-8"),
          node |-> FALSE]
    ELSE LET txid == broadcast_raw(txhex.some, fault)
         IN [response |-> IF is_ok(txid) THEN http_message("OK", txid.ok, 0)
                          ELSE broadcast_error(txid.err),
             node |-> broadcast_cheap_checks(txhex.some)]

too_many_txs_inclusive(txhexes) == Len(txhexes) >= 25

\* if txhexes.len() > 25
too_many_txs(txhexes) == Len(txhexes) > 25

\* the pre-check of one item: Ok, or the error text
pre_check(txhex) ==
    IF ~(120 <= txhex.len /\ txhex.len < 800000) THEN Err("Invalid transaction size for item")
    ELSE IF from_hex(txhex) = None THEN Err("Invalid transaction hex for item")
    ELSE Ok(TRUE)

\* try_for_each: the first item that fails, as its index from 0 (None: all pass)
first_failing(txhexes) ==
    LET bad == {i \in DOMAIN txhexes : ~is_ok(pre_check(txhexes[i]))}
    IN IF bad = {} THEN None ELSE Some((CHOOSE i \in bad : \A j \in bad : i <= j) - 1)

\* POST /txs/test.  txhexes is None when the body is no JSON list of strings;
\* maxfeerate is None when absent, else Some(TRUE) when it parses as a number.
handle_txs_test(txhexes, maxfeerate, fault) ==
    IF txhexes = None
    THEN [response |-> HttpError("BAD_REQUEST", "invalid type"), node |-> FALSE]
    ELSE IF too_many_txs(txhexes.some)
    THEN [response |-> HttpError("BAD_REQUEST", "Exceeded maximum of 25 transactions"),
          node |-> FALSE]
    ELSE IF maxfeerate = Some(FALSE)
    THEN [response |-> HttpError("BAD_REQUEST", "Invalid maxfeerate"), node |-> FALSE]
    ELSE IF first_failing(txhexes.some) # None
    THEN LET index == first_failing(txhexes.some).some
         IN [response |-> HttpError("BAD_REQUEST",
                                    <<pre_check(txhexes.some[index + 1]).err, index>>),
             node |-> FALSE]
    ELSE LET result == test_mempool_accept(txhexes.some, maxfeerate, fault)
         IN [response |-> IF is_ok(result) THEN json_response(result.ok, TTL_SHORT)
                          ELSE HttpError("BAD_REQUEST", result.err.description),
             node |-> TRUE]

PostBroadcast(method, txhex, fault) ==
    /\ resp = None
    /\ resp' = Answered("broadcast", [method |-> method, txhex |-> txhex, fault |-> fault],
                        handle_broadcast(method, txhex, fault))
    /\ UNCHANGED EnvVars

PostTxsTest(txhexes, maxfeerate, fault) ==
    /\ resp = None
    /\ resp' = Answered("txs_test",
                        [txhexes |-> txhexes, maxfeerate |-> maxfeerate, fault |-> fault],
                        handle_txs_test(txhexes, maxfeerate, fault))
    /\ UNCHANGED EnvVars

\* lengths around the limits of the checks: 1 byte, 60 bytes, 200_000 bytes
\* (800_000 weight units), 400_000 bytes, 800_000 bytes
TxHexLens == {2, 118, 119, 120, 121, 122, 400000, 799998, 799999, 800000, 800001, 800002,
              1600000}

TxHexes == {TxHex(n, h, a) : n \in TxHexLens, h \in BOOLEAN, a \in BOOLEAN}

\* a transaction that passes every check
GoodTxHex == TxHex(122, TRUE, TRUE)

\* lists of good transactions, one item of which may be any transaction
TxHexLists ==
    {[i \in 1..n |-> GoodTxHex] : n \in 0..MaxTestTxs}
        \cup UNION {{[i \in 1..n |-> IF i = k THEN t ELSE GoodTxHex] :
                        k \in {1, n}, t \in TxHexes} : n \in 1..MaxTestTxs}

NextBroadcast ==
    \/ \E m \in {"GET", "POST"}, t \in {None} \cup {Some(x) : x \in TxHexes}, f \in NodeFaults :
           PostBroadcast(m, t, f)
    \/ \E l \in {None} \cup {Some(x) : x \in TxHexLists},
          r \in {None, Some(TRUE), Some(FALSE)}, f \in NodeFaults :
           PostTxsTest(l, r, f)

\* Callers submitting transactions.
SpecBroadcast == Init /\ [][NextBroadcast]_vars

-----------------------------------------------------------------------------
(* Properties of broadcast and test_accept                                  *)

TestServed == resp # None /\ resp.endpoint = "txs_test" /\ resp.args.txhexes # None
BroadcastServed == resp # None /\ resp.endpoint = "broadcast" /\ resp.args.txhex # None

\* C13: test_accept accepts up to 25 transactions per call.  A list of 25 or
\* fewer transactions that pass the pre-checks is delegated to the upstream
\* node and the node's per-tx verdict is returned; a list of more than 25 is
\* rejected with BadRequest without the node being consulted.
C13_TestAcceptLimit ==
    TestServed =>
        LET txhexes == resp.args.txhexes.some
            passes == /\ resp.args.maxfeerate # Some(FALSE)
                      /\ \A i \in DOMAIN txhexes : is_ok(pre_check(txhexes[i]))
            verdict == NodeTestMempoolAccept(txhexes, resp.args.maxfeerate, resp.args.fault)
        IN /\ Len(txhexes) > 25 =>
                /\ resp.result.response.status = "BAD_REQUEST"
                /\ ~resp.result.node
           /\ (Len(txhexes) <= 25 /\ passes) =>
                /\ resp.result.node
                /\ is_ok(verdict) =>
                      /\ resp.result.response.status = "OK"
                      /\ resp.result.response.body = verdict.ok

\* a list of exactly 25 transactions got the node's verdict
C13_Witness ==
    /\ TestServed
    /\ Len(resp.args.txhexes.some) = 25
    /\ resp.result.node
    /\ resp.result.response.status = "OK"
    /\ \E i \in 1..25 : ~resp.result.response.body[i].allowed

\* the cheap well-formedness check as the design states it
WellFormed(txhex) ==
    /\ from_hex(txhex) # None
    /\ 60 <= from_hex(txhex).some
    /\ from_hex(txhex).some <= 400000

\* C14: Cheap well-formedness check.  A submitted transaction passes the
\* client-side check exactly when its hex parses and its length lies in the
\* closed range [60, 400_000]; a transaction failing it is rejected with
\* BadRequest (identifying the first failing item) before the upstream node is
\* called, and the broadcast and test_accept paths apply the same check.
C14_CheapCheck ==
    /\ (/\ TestServed
        /\ Len(resp.args.txhexes.some) <= 25
        /\ resp.args.maxfeerate # Some(FALSE)) =>
           LET txhexes == resp.args.txhexes.some
               bad == {i \in DOMAIN txhexes : ~WellFormed(txhexes[i])}
           IN IF bad = {} THEN resp.result.node
              ELSE /\ ~resp.result.node
                   /\ resp.result.response.status = "BAD_REQUEST"
                   /\ resp.result.response.error[2] + 1 = CHOOSE i \in bad : \A j \in bad : i <= j
    /\ BroadcastServed =>
           IF WellFormed(resp.args.txhex.some) THEN resp.result.node
           ELSE /\ ~resp.result.node
                /\ resp.result.response.status = "BAD_REQUEST"

-----------------------------------------------------------------------------
(* The body of the multi-address / multi-scripthash requests                *)
(*                                                                         *)
(* A body is its length in bytes and the list of strings it parses to      *)
(* (None when it is no JSON list of strings).                               *)

\* longest list a caller posts
MaxBodyEntries == 301

\* Limit to 300 addresses
MULTI_ADDRESS_LIMIT == 300

multi_address_too_long(body) == body.len > (8 + 64) * MULTI_ADDRESS_LIMIT

\* the status of the two over-limit errors
over_limit_status == "UNPROCESSABLE_ENTITY"

\* the head of the four POST handlers: the list of strings of the body
body_script_hashes(body) ==
    IF multi_address_too_long(body)
    THEN Err(HttpError(over_limit_status, "body too long"))
    ELSE IF body.list = None
    THEN Err(HttpError("BAD_REQUEST", "invalid type"))
    ELSE IF Len(body.list.some) > MULTI_ADDRESS_LIMIT
    THEN Err(HttpError(over_limit_status, "body too long"))
    ELSE Ok(body.list.some)

Rejected(error) ==
    [response |-> error, location |-> NotFound, mempool |-> None, chain |-> None,
     mempool_page |-> <<>>, chain_page |-> <<>>]

\* POST /{addresses|scripthashes}/txs
handle_txs_multi_body(body, max_txs, after_txid) ==
    LET script_hashes == body_script_hashes(body)
    IN IF is_ok(script_hashes) THEN handle_txs_multi(script_hashes.ok, max_txs, after_txid)
       ELSE Rejected(script_hashes.err)

\* POST /{addresses|scripthashes}/txs/summary[/{last_seen_txid}]
handle_summary_multi_body(body, max_txs, last_seen_txid) ==
    LET script_hashes == body_script_hashes(body)
    IN IF is_ok(script_hashes)
       THEN handle_summary_multi(script_hashes.ok, max_txs, last_seen_txid)
       ELSE Rejected(script_hashes.err)

PostTxsBody(body, max_param, after_txid) ==
    LET max_txs == max_txs_or(max_param, rest_default_max_mempool_txs)
    IN /\ resp = None
       /\ resp' = Answered("txs_multi_body",
                           [body |-> body, max_txs |-> max_txs, cursor |-> after_txid],
                           handle_txs_multi_body(body, max_txs, after_txid))
       /\ UNCHANGED EnvVars

PostSummaryBody(body, max_param, last_seen_txid) ==
    LET max_txs == summary_max_txs(max_param)
    IN /\ resp = None
       /\ resp' = Answered("summary_multi_body",
                           [body |-> body, max_txs |-> max_txs, cursor |-> last_seen_txid],
                           handle_summary_multi_body(body, max_txs, last_seen_txid))
       /\ UNCHANGED EnvVars

\* the shortest JSON text of a list of n strings of at most two letters
MinBodyLen(n) == IF n = 0 THEN 2 ELSE 5 * n + 1

\* a list of n entries: two scripthashes, then strings that are none
PostedList(n) == [i \in 1..n |-> IF i = 1 THEN "A" ELSE IF i = 2 THEN "B" ELSE "zz"]

\* bodies: a list of n entries, written compactly or padded with white space
\* up to and beyond the byte limit; and bodies that are no list of strings
PostedBodies ==
    {[len |-> l, list |-> Some(PostedList(n))] :
        n \in 0..MaxBodyEntries,
        l \in {(8 + 64) * MULTI_ADDRESS_LIMIT, (8 + 64) * MULTI_ADDRESS_LIMIT + 1}}
    \cup {[len |-> MinBodyLen(n), list |-> Some(PostedList(n))] : n \in 0..MaxBodyEntries}
    \cup {[len |-> l, list |-> None] : l \in {0, 2, (8 + 64) * MULTI_ADDRESS_LIMIT + 1}}

NextMulti ==
    \/ \E b \in PostedBodies, c \in {None, Some(UnknownTxid)} : PostTxsBody(b, None, c)
    \/ \E b \in PostedBodies, c \in {None, Some(UnknownTxid)} : PostSummaryBody(b, None, c)

\* Callers posting lists of addresses or scripthashes.
SpecMulti == Init /\ [][NextMulti]_vars

\* C16: Over-limit input is BadRequest.  A multi-address / multi-scripthash
\* request whose body is more than (8+64)*300 bytes or whose list has more than
\* 300 entries fails with the BadRequest error kind, distinct from the
\* UnprocessableCursor kind used for unknown cursors.
C16_OverLimitIsBadRequest ==
    (/\ resp # None
     /\ resp.endpoint \in {"txs_multi_body", "summary_multi_body"}
     /\ \/ resp.args.body.len > (8 + 64) * 300
        \/ resp.args.body.list # None /\ Len(resp.args.body.list.some) > 300)
    => /\ resp.result.response.status = "BAD_REQUEST"
       /\ resp.result.response.status
             # handle_txs(CHOOSE sh \in ScriptHashes : TRUE, 1, Some(UnknownTxid)).response.status

-----------------------------------------------------------------------------
(* Addresses and scripthashes (spec.md 6)                                   *)
(*                                                                         *)
(* A string of hex digits is the sequence of its digits (0..15; 16 stands  *)
(* for a character that is no hex digit).  An address string is the        *)
(* network its encoding is detected as and the script it pays to (None     *)
(* when the string is no address).                                          *)

Scripts == {1, 2, 3}

\* SHA256 of a scriptPubKey: 32 bytes
Sha256(script) == [i \in 1..32 |-> (script * 37 + i * 11) % 256]

ReverseBytes(bytes) == [i \in 1..Len(bytes) |-> bytes[Len(bytes) - i + 1]]

\* hex::encode
hex_encode(bytes) ==
    [i \in 1..(2 * Len(bytes)) |->
        IF i % 2 = 1 THEN bytes[(i + 1) \div 2] \div 16 ELSE bytes[i \div 2] % 16]

\* hex::decode
hex_decode(str) ==
    IF Len(str) % 2 # 0 \/ \E i \in DOMAIN str : str[i] > 15 THEN None
    ELSE Some([i \in 1..(Len(str) \div 2) |-> 16 * str[2 * i - 1] + str[2 * i]])

\* the networks an operator configures
Networks == {"Bitcoin", "Testnet", "Testnet4", "Regtest", "Signet"}

\* the networks Address::from_str detects: the encodings shared by the test
\* variants are detected as Testnet, the bcrt prefix as Regtest
DetectedNetworks == {"Bitcoin", "Testnet", "Regtest"}

\* compute_script_hash
compute_script_hash(script) == Sha256(script)

\* Testnet, Regtest and Signet all share the same version bytes
is_expected_net(addr_network, network) ==
    \/ addr_network = network
    \/ addr_network = "Testnet" /\ network \in {"Regtest", "Signet", "Testnet4"}

address_to_scripthash(addr, network) ==
    IF addr = None THEN Err(HttpError("BAD_REQUEST", "Invalid Bitcoin address"))
    ELSE IF ~is_expected_net(addr.some.network, network)
    THEN Err(HttpError("BAD_REQUEST", "Address on invalid network"))
    ELSE Ok(compute_script_hash(addr.some.script))

parse_scripthash(scripthash) ==
    LET bytes == hex_decode(scripthash)
    IN IF bytes = None THEN Err(HttpError("BAD_REQUEST", "Invalid hex string"))
       ELSE IF Len(bytes.some) # 32 THEN Err(HttpError("BAD_REQUEST", "Invalid scripthash"))
       ELSE Ok(bytes.some)

\* to_scripthash, on the string as the caller wrote it
to_scripthash_by_type(script_type, script_str, network) ==
    CASE script_type = "address" -> address_to_scripthash(script_str, network)
      [] script_type = "scripthash" -> parse_scripthash(script_str)
      [] OTHER -> Err(HttpError("BAD_REQUEST", "Invalid script type"))

ToScripthash(script_type, script_str, network) ==
    /\ resp = None
    /\ resp' = Answered("to_scripthash",
                        [script_type |-> script_type, script_str |-> script_str,
                         network |-> network],
                        to_scripthash_by_type(script_type, script_str, network))
    /\ UNCHANGED EnvVars

AddressStrings ==
    {None} \cup {Some([network |-> n, script |-> sc]) : n \in DetectedNetworks, sc \in Scripts}

\* the scripthash of a script rendered as the design states it: reversed
ReversedHex(script) == hex_encode(ReverseBytes(Sha256(script)))

\* strings of hex digits: the scripthash of a script as raw and as reversed
\* hex, and strings that are too short, too long, of odd length, or no hex
ScripthashStrings ==
    UNION {{hex_encode(Sha256(sc)),
            ReversedHex(sc),
            SubSeq(ReversedHex(sc), 1, 62),
            SubSeq(ReversedHex(sc), 1, 63),
            ReversedHex(sc) \o <<0, 0>>,
            [ReversedHex(sc) EXCEPT ![1] = 16]} : sc \in Scripts}
    \cup {<<>>}

NextScript ==
    \/ \E a \in AddressStrings, n \in Networks : ToScripthash("address", a, n)
    \/ \E h \in ScripthashStrings, n \in Networks : ToScripthash("scripthash", h, n)
    \/ \E n \in Networks : ToScripthash("pubkey", <<>>, n)

\* Callers naming a script by address or by scripthash.
SpecScript == Init /\ [][NextScript]_vars

AddressServed ==
    /\ resp # None
    /\ resp.endpoint = "to_scripthash"
    /\ resp.args.script_type = "address"
    /\ resp.args.script_str # None

\* the test family
TestFamily == {"Testnet", "Testnet4", "Regtest", "Signet"}

\* C17: Address network check.  An address is accepted exactly when its parsed
\* network equals the configured network, or when both the parsed and the
\* configured network belong to the test family, in either direction; in every
\* other case the call fails with WrongNetwork and no scripthash is produced.
C17_AddressNetwork ==
    AddressServed =>
        LET addr == resp.args.script_str.some
        IN IF \/ addr.network = resp.args.network
              \/ addr.network \in TestFamily /\ resp.args.network \in TestFamily
           THEN resp.result = Ok(Sha256(addr.script))
           ELSE resp.result = Err(HttpError("BAD_REQUEST", "Address on invalid network"))

\* C18: Scripthash hex form.  The hex string naming a scripthash is the
\* byte-reversed rendering of the 32 raw bytes SHA256(scriptPubKey): parsing
\* the hex string of a script's scripthash yields the same 32-byte index key
\* as address_to_scripthash yields for an address of that script; a hex string
\* that does not decode to exactly 32 bytes is rejected with BadRequest.
C18_ScripthashHexForm ==
    (/\ resp # None
     /\ resp.endpoint = "to_scripthash"
     /\ resp.args.script_type = "scripthash")
    => /\ \A sc \in Scripts :
             resp.args.script_str = ReversedHex(sc) =>
                 resp.result
                     = address_to_scripthash(Some([network |-> resp.args.network, script |-> sc]),
                                             resp.args.network)
       /\ (hex_decode(resp.args.script_str) = None
             \/ Len(hex_decode(resp.args.script_str).some) # 32)
            => /\ ~is_ok(resp.result)
               /\ resp.result.err.status = "BAD_REQUEST"

-----------------------------------------------------------------------------
(* Transaction and outspend lookups                                         *)

\* TransactionStatus::from(Option<BlockId>)
TransactionStatus_from(blockid) ==
    [confirmed |-> blockid # None, block_height |-> blockid]

\* Query::lookup_spend: the chain Spend record, else the mempool spend map
lookup_spend(outpoint) ==
    IF \E x \in store.spend : x.prev = outpoint
    THEN LET x == CHOOSE y \in store.spend : y.prev = outpoint
         IN Some([txid |-> x.txid, vin |-> x.vin, confirmed |-> Some(x.height)])
    ELSE IF \E x \in mpSpends : x.prev = outpoint
    THEN LET x == CHOOSE y \in mpSpends : y.prev = outpoint
         IN Some([txid |-> x.txid, vin |-> x.vin, confirmed |-> None])
    ELSE None

\* SpendingValue::default
SpendingValue_default == [spent |-> FALSE, txid |-> None, vin |-> None, status |-> None]

SpendingValue_from_unconfirmed(spend) ==
    [spent |-> TRUE, txid |-> Some(spend.txid), vin |-> Some(spend.vin),
     status |-> Some(TransactionStatus_from(None))]

\* impl From<SpendingInput> for SpendingValue
SpendingValue_from(spend) ==
    [spent |-> TRUE, txid |-> Some(spend.txid), vin |-> Some(spend.vin),
     status |-> Some(TransactionStatus_from(spend.confirmed))]

\* GET /tx/{txid}/outspend/{vout}; a path element is None when it does not parse
handle_outspend(hash, index) ==
    IF hash = None THEN HttpError("BAD_REQUEST", "Invalid hash string")
    ELSE IF index = None THEN HttpError("BAD_REQUEST", "Invalid number")
    ELSE LET outpoint == OutPoint(hash.some, index.some)
             found == lookup_spend(outpoint)
             spend == IF found = None THEN SpendingValue_default
                      ELSE SpendingValue_from(found.some)
             ttl == ttl_by_depth(IF spend.status = None THEN None
                                 ELSE spend.status.some.block_height)
         IN json_response(spend, ttl)

GetOutspend(hash, index) ==
    /\ resp = None
    /\ resp' = Answered("outspend", <<hash, index>>, handle_outspend(hash, index))
    /\ UNCHANGED EnvVars

\* the largest output index a caller asks about
MaxVout == 2

TxRequests ==
    \/ \E t \in {None} \cup {Some(x) : x \in Txids \cup {UnknownTxid}} : GetTx(t)
    \/ \E t \in {None} \cup {Some(x) : x \in Txids \cup {UnknownTxid}},
          v \in {None} \cup {Some(n) : n \in 0..MaxVout} : GetOutspend(t, v)
    \/ \E sh \in ScriptHashes : GetTxs(sh, None, None)

NextTx ==
    \/ NodeForward
    \/ IndexerApply
    \/ MempoolSync
    \/ TxRequests

\* The node, the two indexers, and callers looking up transactions and spends.
SpecTx == Init /\ [][NextTx]_vars

-----------------------------------------------------------------------------
(* Properties of the transaction and outspend lookups                       *)

OutspendServed ==
    /\ resp # None
    /\ resp.endpoint = "outspend"
    /\ resp.args[1] # None
    /\ resp.args[2] # None

\* the height of the block of the header chain that holds a transaction
BlockHeightOf(t) == CHOOSE h \in DOMAIN headers : t \in SeqToSet(headers[h])

\* C19: Outspend lookup.  GET /tx/{txid}/outspend/{vout} reports spent=true with
\* the spending txid, vin and status exactly when a chain Spend record or,
\* failing that, a mempool spend exists for the outpoint (the chain record
\* taking precedence, its status then being confirmed at the spending block's
\* height); otherwise it reports spent=false with txid, vin and status absent.
C19_OutspendLookup ==
    OutspendServed =>
        LET outpoint == OutPoint(resp.args[1].some, resp.args[2].some)
            onChain == {x \in store.spend : x.prev = outpoint}
            inMempool == {x \in mpSpends : x.prev = outpoint}
            body == resp.result.body
        IN /\ resp.result.status = "OK"
           /\ IF onChain # {}
              THEN \E x \in onChain :
                      /\ body.spent
                      /\ body.txid = Some(x.txid)
                      /\ body.vin = Some(x.vin)
                      /\ body.status
                           = Some([confirmed |-> TRUE, block_height |-> Some(BlockHeightOf(x.txid))])
              ELSE IF inMempool # {}
              THEN \E x \in inMempool :
                      /\ body.spent
                      /\ body.txid = Some(x.txid)
                      /\ body.vin = Some(x.vin)
                      /\ body.status = Some([confirmed |-> FALSE, block_height |-> None])
              ELSE body = [spent |-> FALSE, txid |-> None, vin |-> None, status |-> None]

\* the outpoint has a chain Spend record and a mempool spend; the chain record
\* was reported
C19_Witness ==
    /\ OutspendServed
    /\ LET outpoint == OutPoint(resp.args[1].some, resp.args[2].some)
       IN /\ \E x \in store.spend : x.prev = outpoint
          /\ \E x \in mpSpends : x.prev = outpoint
    /\ resp.result.body.status # None
    /\ resp.result.body.status.some.confirmed

\* the outpoints that resolve to an output, in the chain or in the mempool
ResolvedOutPoints == {op \in UNION {PrevOuts(t) : t \in Txids} : Resolvable(store, mpTxs, op)}

\* C20: prepare_txs never returns a transaction with incorrect prevout data.
\* Every transaction in its output has all of its non-coinbase inputs' prevouts
\* resolved, any transaction with a missing prevout is omitted, and the
\* remaining transactions keep their input order; for GET /tx/{txid} an omitted
\* transaction yields a 500 'Transaction missing prevouts' response rather
\* than NotFound.
C20_PrepareTxs ==
    /\ (resp # None /\ resp.endpoint = "txs" /\ resp.result.response.status = "OK") =>
          LET input == resp.result.mempool_page \o TxidsOf(resp.result.chain_page)
          IN TxidsOf(resp.result.response.body)
                = SelectSeq(input, LAMBDA t : PrevOuts(t) \subseteq ResolvedOutPoints)
    /\ (resp # None /\ resp.endpoint = "tx" /\ resp.args[1] # None) =>
          LET t == resp.args[1].some
          IN IF t \notin mpTxs /\ ~Confirmed(t)
             THEN resp.result.status = "NOT_FOUND"
             ELSE IF PrevOuts(t) \subseteq ResolvedOutPoints
             THEN resp.result.status = "OK" /\ resp.result.body.txid = t
             ELSE resp.result
                    = http_message("INTERNAL_SERVER_ERROR", "Transaction missing prevouts", 0)

\* a mempool transaction whose parent resolves nowhere was asked for
C20_Witness ==
    /\ resp # None
    /\ resp.endpoint = "tx"
    /\ resp.args[1] # None
    /\ resp.args[1].some \in mpTxs
    /\ ~(PrevOuts(resp.args[1].some) \subseteq ResolvedOutPoints)
    /\ resp.result.status = "INTERNAL_SERVER_ERROR"

-----------------------------------------------------------------------------
(* The multi-address / multi-scripthash requests over a chain and a mempool *)

\* short lists: scripthashes, and strings that are no scripthash or are an
\* address of another network
QueryLists == {<<>>, <<"zz">>, <<"A", "B">>, <<"zz", "B">>, <<"B", "zz", "A">>, <<"zz", "bc1">>}

QueryBodies == {[len |-> MinBodyLen(Len(l)), list |-> Some(l)] : l \in QueryLists}

\* cursors: none, a transaction, and a txid of no transaction
QueryCursors == {None, Some(2), Some(UnknownTxid)}

NextMultiQuery ==
    \/ NodeForward
    \/ IndexerApply
    \/ MempoolSync
    \/ \E b \in QueryBodies, c \in QueryCursors : PostTxsBody(b, None, c)
    \/ \E b \in QueryBodies, c \in QueryCursors : PostSummaryBody(b, None, c)

\* The node, the two indexers, and callers posting short lists.
SpecMultiQuery == Init /\ [][NextMultiQuery]_vars

\* a served POST whose body passed the size limits and whose cursor resolves
MultiServed ==
    /\ resp # None
    /\ resp.endpoint \in {"txs_multi_body", "summary_multi_body"}
    /\ resp.args.body.len <= (8 + 64) * 300
    /\ resp.args.body.list # None
    /\ Len(resp.args.body.list.some) <= 300
    /\ resp.args.cursor # None =>
          (resp.args.cursor.some \in mpTxs \/ Confirmed(resp.args.cursor.some))

\* C21: Multi-scripthash POST endpoints silently drop unparseable elements.
\* For a body list of at most 300 entries the query is run over exactly the
\* sub-list of entries that parse as an address/scripthash (in order), an
\* unparseable or wrong-network entry never causes the call to fail, and a
\* list with no parseable entry still succeeds.
C21_DropUnparseable ==
    MultiServed =>
        LET list == resp.args.body.list.some
            sub == SelectSeq(list, LAMBDA str : str \in ScriptHashes)
        IN /\ resp.result.response.status = "OK"
           /\ resp.endpoint = "txs_multi_body" =>
                 /\ resp.result.mempool_page
                       = IF resp.result.mempool = None THEN <<>>
                         ELSE MempoolHistoryGroup(sub, resp.result.mempool.some.after,
                                                  resp.result.mempool.some.limit)
                 /\ resp.result.chain_page
                       = IF resp.result.chain = None THEN <<>>
                         ELSE ChainHistoryGroup(sub, resp.result.chain.some.after,
                                                resp.result.chain.some.height,
                                                resp.result.chain.some.limit)
           /\ resp.endpoint = "summary_multi_body" =>
                 resp.result.response.body
                    = ChainSummaryGroup(sub, resp.result.chain.some.after,
                                        resp.result.chain.some.height,
                                        resp.result.chain.some.limit)

\* a list with an unparseable entry was answered with the history of the rest
C21_Witness ==
    /\ MultiServed
    /\ resp.args.body.list.some = <<"zz", "B">>
    /\ resp.result.response.status = "OK"
    /\ resp.result.response.body # <<>>

-----------------------------------------------------------------------------
(* The max_txs query parameter of the summary endpoints *)

\* a query parameter is a string, here a sequence of characters
DigitChars == <<"0", "1", "2", "3", "4", "5", "6", "7", "8", "9">>

DigitValue(c) == (CHOOSE i \in DOMAIN DigitChars : DigitChars[i] = c) - 1

RECURSIVE DigitsValue(_)
DigitsValue(s) ==
    IF s = <<>> THEN 0 ELSE 10 * DigitsValue(SubSeq(s, 1, Len(s) - 1)) + DigitValue(s[Len(s)])

\* str::parse::<usize>().ok(): decimal digits after an optional plus sign
parse_usize(s) ==
    LET digits == IF s # <<>> /\ s[1] = "+" THEN Tail(s) ELSE s
    IN IF digits # <<>> /\ \A i \in DOMAIN digits : digits[i] \in SeqToSet(DigitChars)
       THEN Some(DigitsValue(digits))
       ELSE None

\* query_params.get("max_txs").and_then(|s| s.parse::<usize>().ok())
query_max_txs(query_param) ==
    IF query_param = None THEN None ELSE parse_usize(query_param.some)

\* GET /{address|scripthash}/{str}/txs/summary[/{last_seen_txid}]?max_txs=...
GetSummaryQuery(script_str, query_param, last_seen_txid) ==
    LET max_txs == summary_max_txs(query_max_txs(query_param))
    IN /\ resp = None
       /\ resp' = Answered("summary_query",
                           [script_hashes |-> <<script_str>>, max_txs |-> query_param,
                            cursor |-> last_seen_txid],
                           handle_summary(script_str, max_txs, last_seen_txid))
       /\ UNCHANGED EnvVars

\* POST /{addresses|scripthashes}/txs/summary[/{last_seen_txid}]?max_txs=...
PostSummaryQuery(body, query_param, last_seen_txid) ==
    LET max_txs == summary_max_txs(query_max_txs(query_param))
    IN /\ resp = None
       /\ resp' = Answered("summary_multi_query",
                           [script_hashes |-> body, max_txs |-> query_param,
                            cursor |-> last_seen_txid],
                           handle_summary_multi(body, max_txs, last_seen_txid))
       /\ UNCHANGED EnvVars

\* the parameter absent, a number up to past the configured maximum, a number
\* with a sign, and strings that are no number
QueryParams ==
    {None, Some(<<>>), Some(<<"x">>), Some(<<"-", "1">>), Some(<<"1", "x">>)}
        \cup {Some(<<DigitChars[n + 1]>>) : n \in 0..(MaxTxsParam + 1)}
        \cup {Some(<<"+", DigitChars[MaxTxsParam + 1]>>), Some(<<"1", "0">>)}

NextSummary ==
    \/ NodeForward
    \/ IndexerApply
    \/ MempoolSync
    \/ \E sh \in ScriptHashes, q \in QueryParams, c \in {None, Some(1)} :
           GetSummaryQuery(sh, q, c)
    \/ \E q \in QueryParams, c \in {None, Some(1)} :
           PostSummaryQuery(<<"A", "B">>, q, c)

\* The node, the two indexers, and callers of the summary endpoints.
SpecSummary == Init /\ [][NextSummary]_vars

SummaryServed ==
    /\ resp # None
    /\ resp.endpoint \in {"summary_query", "summary_multi_query"}
    /\ resp.result.response.status = "OK"

\* the strings that name a number, each with its number
NumberStrings ==
    {<<(<<DigitChars[k + 1]>>), k>> : k \in 0..9}
        \cup {<<(<<"+", DigitChars[k + 1]>>), k>> : k \in 0..9}
        \cup {<<(<<"1", "0">>), 10>>}

\* the number a max_txs parameter asks for, if it is a number
Requested(query_param) ==
    IF query_param = None \/ ~ \E p \in NumberStrings : p[1] = query_param.some
    THEN None
    ELSE Some((CHOOSE p \in NumberStrings : p[1] = query_param.some)[2])

\* C22: the effective max_txs of a summary request is min(requested,
\* configured address-summary maximum), and is the configured maximum when
\* max_txs is absent or not a number; the summary never holds more entries
\* than the configured maximum.
C22_SummaryClamp ==
    SummaryServed =>
        LET requested == Requested(resp.args.max_txs)
            effective == resp.result.chain.some.limit
        IN /\ requested # None =>
                 effective = Min(requested.some, rest_default_max_address_summary_txs)
           /\ requested = None => effective = rest_default_max_address_summary_txs
           /\ effective <= rest_default_max_address_summary_txs
           /\ Len(resp.result.response.body) <= rest_default_max_address_summary_txs

\* a request for more than the configured maximum, on a history that holds
\* more, was answered with the configured maximum
C22_Witness ==
    /\ SummaryServed
    /\ resp.args.max_txs = Some(<<DigitChars[MaxTxsParam + 1]>>)
    /\ resp.args.cursor = None
    /\ Len(resp.result.response.body) = rest_default_max_address_summary_txs
    /\ Len(ChainSummaryGroup(resp.args.script_hashes, None, None, MaxTxsParam))
           > rest_default_max_address_summary_txs

-----------------------------------------------------------------------------
(* Script-type classification of a transaction output *)

\* opcodes::all, as bytes
OP_PUSHBYTES_2 == 2
OP_PUSHBYTES_32 == 32
OP_PUSHNUM_1 == 81
OP_PUSHNUM_15 == 95
OP_CHECKMULTISIG == 174

\* a script is a sequence of bytes; script[i] of the source is script[i + 1]
\* Script::is_empty
is_empty(script) == Len(script) = 0

\* Script::is_op_return: the first byte is OP_RETURN (0x6a)
is_op_return(script) == Len(script) > 0 /\ script[1] = 106

\* Script::is_p2pk: <33 or 65 byte key> OP_CHECKSIG
is_p2pk(script) ==
    \/ Len(script) = 67 /\ script[1] = 65 /\ script[67] = 172
    \/ Len(script) = 35 /\ script[1] = 33 /\ script[35] = 172

\* Script::is_p2pkh: OP_DUP OP_HASH160 <20 bytes> OP_EQUALVERIFY OP_CHECKSIG
is_p2pkh(script) ==
    /\ Len(script) = 25
    /\ script[1] = 118 /\ script[2] = 169 /\ script[3] = 20
    /\ script[24] = 136 /\ script[25] = 172

\* Script::is_p2sh: OP_HASH160 <20 bytes> OP_EQUAL
is_p2sh(script) ==
    Len(script) = 23 /\ script[1] = 169 /\ script[2] = 20 /\ script[23] = 135

\* Script::is_v0_p2wpkh: OP_0 <20 bytes>
is_v0_p2wpkh(script) == Len(script) = 22 /\ script[1] = 0 /\ script[2] = 20

\* Script::is_v0_p2wsh: OP_0 <32 bytes>
is_v0_p2wsh(script) == Len(script) = 34 /\ script[1] = 0 /\ script[2] = 32

\* opcodes::All::classify in a legacy script: the opcodes that end the script
\* (OP_RESERVED, OP_VER, OP_RETURN, OP_RESERVED1, OP_RESERVED2, 0xba and above)
\* and the disabled ones (OP_VERIF, OP_VERNOTIF, OP_CAT.., 0xff)
ReturnOp == {80, 98, 106, 137, 138} \cup 186..254
IllegalOp == {101, 102, 255} \cup 126..129 \cup 131..134 \cup {141, 142} \cup 149..153

\* Script::is_provably_unspendable: the first opcode is a ReturnOp or an IllegalOp
is_provably_unspendable(script) ==
    Len(script) > 0 /\ script[1] \in ReturnOp \cup IllegalOp

\* is_v1_p2tr without the length test
is_v1_p2tr_any_length(script) ==
    /\ Len(script) >= 2
    /\ script[1] = OP_PUSHNUM_1
    /\ script[2] = OP_PUSHBYTES_32

is_v1_p2tr(script) ==
    /\ Len(script) = 34
    /\ script[1] = OP_PUSHNUM_1
    /\ script[2] = OP_PUSHBYTES_32

is_bare_multisig(script) ==
    LET len == Len(script)
    IN /\ len >= 37
       /\ script[len] = OP_CHECKMULTISIG
       /\ script[len - 1] >= OP_PUSHNUM_1
       /\ script[len - 1] <= OP_PUSHNUM_15
       /\ script[1] >= OP_PUSHNUM_1
       /\ script[1] <= script[len - 1]

is_anchor(script) ==
    /\ Len(script) = 4
    /\ script[1] = OP_PUSHNUM_1
    /\ script[2] = OP_PUSHBYTES_2
    /\ script[3] = 78
    /\ script[4] = 115

\* the predicate that each script type names
predicate_holds(type, script) ==
    CASE type = "empty" -> is_empty(script)
      [] type = "op_return" -> is_op_return(script)
      [] type = "p2pk" -> is_p2pk(script)
      [] type = "p2pkh" -> is_p2pkh(script)
      [] type = "p2sh" -> is_p2sh(script)
      [] type = "v0_p2wpkh" -> is_v0_p2wpkh(script)
      [] type = "v0_p2wsh" -> is_v0_p2wsh(script)
      [] type = "v1_p2tr" -> is_v1_p2tr(script)
      [] type = "anchor" -> is_anchor(script)
      [] type = "provably_unspendable" -> is_provably_unspendable(script)
      [] type = "multisig" -> is_bare_multisig(script)

\* an if-chain over the predicates in the given order, "unknown" at its end
RECURSIVE if_chain(_, _)
if_chain(order, script) ==
    IF order = <<>> THEN "unknown"
    ELSE IF predicate_holds(Head(order), script) THEN Head(order)
    ELSE if_chain(Tail(order), script)

\* the order of the if-chain of TxOutValue::new (is_fee is false on Bitcoin)
script_type_order ==
    <<"empty", "op_return", "p2pk", "p2pkh", "p2sh", "v0_p2wpkh", "v0_p2wsh",
      "v1_p2tr", "anchor", "provably_unspendable", "multisig">>

\* TxOutValue::new: scriptpubkey_type
TxOutValue_new(script) ==
    [scriptpubkey |-> script, scriptpubkey_type |-> if_chain(script_type_order, script)]

\* a response shows an output with this scriptPubKey
ShowTxOut(script) ==
    /\ resp = None
    /\ resp' = Answered("txout", [script |-> script], TxOutValue_new(script))
    /\ UNCHANGED EnvVars

\* scripts: a head, a filler, a tail, cut to a length
ScriptLens == {0, 1, 2, 4, 22, 23, 25, 34, 35, 37, 40, 67}

ScriptHeads ==
    {<<0, 20>>, <<0, 32>>, <<81, 32>>, <<81, 2, 78, 115>>, <<118, 169, 20>>, <<169, 20>>,
     <<33>>, <<65>>, <<106>>, <<106, 32>>, <<80>>, <<101>>, <<81>>, <<82, 33>>, <<95>>,
     <<96>>, <<97>>, <<255>>}

ScriptTails ==
    {<<136, 172>>, <<135>>, <<172>>, <<81, 174>>, <<82, 174>>, <<95, 174>>, <<96, 174>>,
     <<78, 115>>, <<0>>}

MakeScript(len, head, tail) ==
    [i \in 1..len |-> IF i <= Len(head) THEN head[i]
                      ELSE IF i > len - Len(tail) THEN tail[i - (len - Len(tail))]
                      ELSE 17]

SampleScripts ==
    {MakeScript(len, head, tail) : len \in ScriptLens, head \in ScriptHeads, tail \in ScriptTails}

NextTxOut == \E script \in SampleScripts : ShowTxOut(script)

\* Outputs shown in responses.
SpecTxOut == Init /\ [][NextTxOut]_vars

TxOutShown == resp # None /\ resp.endpoint = "txout"

\* the predicates that hold for a script
Holding(script) == {type \in SeqToSet(script_type_order) : predicate_holds(type, script)}

\* the order of the source, and the orders that move one check in front of
\* the others or behind them, and the reverse order
MoveToFront(order, type) == <<type>> \o SelectSeq(order, LAMBDA t : t # type)
MoveToBack(order, type) == SelectSeq(order, LAMBDA t : t # type) \o <<type>>
Reverse(order) == [i \in DOMAIN order |-> order[Len(order) + 1 - i]]

Orders ==
    {script_type_order, Reverse(script_type_order)}
        \cup {MoveToFront(script_type_order, t) : t \in SeqToSet(script_type_order)}
        \cup {MoveToBack(script_type_order, t) : t \in SeqToSet(script_type_order)}

Before(order, a, b) ==
    \E i, j \in DOMAIN order : i < j /\ order[i] = a /\ order[j] = b

\* C23 (as written): for every script at most one of the predicates holds, so
\* any permutation of the if-chain yields the same scriptpubkey_type.
C23_AnyOrder ==
    TxOutShown =>
        /\ Cardinality(Holding(resp.args.script)) <= 1
        /\ \A order \in Orders :
               if_chain(order, resp.args.script) = resp.result.scriptpubkey_type

\* C23 (amended): a script whose first byte is OP_RETURN satisfies both
\* op_return and provably_unspendable; for every script at most one of the
\* other predicates holds, and none of them together with provably_unspendable,
\* so any permutation of the if-chain that keeps op_return before
\* provably_unspendable yields the same scriptpubkey_type.
C23_OrderUpToOpReturn ==
    TxOutShown =>
        LET holding == Holding(resp.args.script)
        IN /\ \/ Cardinality(holding) <= 1
              \/ holding = {"op_return", "provably_unspendable"}
           /\ is_op_return(resp.args.script) => is_provably_unspendable(resp.args.script)
           /\ \A order \in Orders :
                  Before(order, "op_return", "provably_unspendable") =>
                      if_chain(order, resp.args.script) = resp.result.scriptpubkey_type

\* an OP_RETURN output was shown as op_return
C23_Witness ==
    /\ TxOutShown
    /\ Holding(resp.args.script) = {"op_return", "provably_unspendable"}
    /\ resp.result.scriptpubkey_type = "op_return"

-----------------------------------------------------------------------------
(* difficulty_new: the difficulty of a block from the nBits of its header *)

\* An f64 is +infinity or m * 2^u: m is an integer of 53 bits, written as its
\* bits from the most significant one, and u >= -1074.  m begins with a 1
\* (a normal number, of binary exponent u + 52 >= -1022) unless u = -1074
\* (a subnormal number, or zero).
Infinity == [inf |-> TRUE]

Finite(m, u) == [m |-> m, u |-> u]

Zeros(n) == [i \in 1..n |-> 0]

\* the bits of m + 1 (of 0 when every bit of m is 1)
Inc(m) ==
    IF \A i \in DOMAIN m : m[i] = 1 THEN Zeros(Len(m))
    ELSE LET j == CHOOSE k \in DOMAIN m : m[k] = 0 /\ \A i \in (k + 1)..Len(m) : m[i] = 1
         IN [i \in DOMAIN m |-> IF i < j THEN m[i] ELSE IF i = j THEN 1 ELSE 0]

\* 6 * n bits of the quotient r / d by long division (r < 2 * d < 2^25), six
\* bits at a time, and the remainder
RECURSIVE DivBits(_, _, _)
DivBits(r, d, n) ==
    IF n = 0 THEN [bits |-> <<>>, rem |-> r]
    ELSE LET six == (r * 32) \div d
             rest == DivBits(2 * ((r * 32) % d), d, n - 1)
         IN [bits |-> [i \in 1..6 |-> (six \div 2^(6 - i)) % 2] \o rest.bits,
             rem |-> rest.rem]

\* (num as f64) / (den as f64) for 0 < num < 2^16 and den < 2^24: the quotient
\* rounded to 53 bits, to nearest and to even on a tie; +infinity for den = 0
f64_div(num, den) ==
    IF den = 0 THEN Infinity
    ELSE LET e == CHOOSE k \in -9..24 :
                     IF k >= 0 THEN den <= num \div 2^k /\ num \div 2^k < 2 * den
                     ELSE den <= num * 2^(-k) /\ num * 2^(-k) < 2 * den
             q == IF e >= 0 THEN DivBits(num, den * 2^e, 9)
                  ELSE DivBits(num * 2^(-e), den, 9)
             m == SubSeq(q.bits, 1, 53)
             up == q.bits[54] = 1 /\ (q.rem # 0 \/ m[53] = 1)
         IN IF ~up THEN Finite(m, e - 52)
            ELSE IF m = [i \in 1..53 |-> 1] THEN Finite(<<1>> \o Zeros(52), e - 51)
            ELSE Finite(Inc(m), e - 52)

\* m / 2^s (0 < s) rounded to an integer, to nearest and to even on a tie
RoundShift(m, s) ==
    IF s >= 54 THEN Zeros(53)
    ELSE LET kept == Zeros(s) \o SubSeq(m, 1, 53 - s)
             up == /\ m[54 - s] = 1
                   /\ \/ \E i \in (55 - s)..53 : m[i] = 1
                      \/ kept[53] = 1
         IN IF up THEN Inc(kept) ELSE kept

\* d_diff *= 256.0 (no finite value of difficulty_new is near the largest f64)
f64_mul_256(d) == IF d = Infinity THEN Infinity ELSE Finite(d.m, d.u + 8)

\* a division by 16
f64_div_16(d) ==
    IF d = Infinity THEN Infinity
    ELSE IF d.u - 4 >= -1074 THEN Finite(d.m, d.u - 4)
    ELSE Finite(RoundShift(d.m, -1074 - (d.u - 4)), -1074)

\* d_diff /= 256.0: exact while the result is a normal number, rounded to a
\* multiple of 2^-1074 below that
f64_div_256(d) ==
    IF d = Infinity THEN Infinity
    ELSE IF d.u - 8 >= -1074 THEN Finite(d.m, d.u - 8)
    ELSE Finite(RoundShift(d.m, -1074 - (d.u - 8)), -1074)

\* bh.bits is a u32, here its four bytes from the most significant one
\* bh.bits >> 24 & 0xff
bits_shift(bits) == bits[1]

\* bh.bits & 0x00ffffff
bits_coef(bits) == bits[2] * 65536 + bits[3] * 256 + bits[4]

\* difficulty_new, up to its first loop test; steps counts the passes of
\* the two loops
DifficultyNew(bits) ==
    /\ resp = None
    /\ resp' = Answered("difficulty_new", [bits |-> bits],
                        [pc |-> "scale", n_shift |-> bits_shift(bits),
                         d_diff |-> f64_div(65535, bits_coef(bits)), steps |-> 0])
    /\ UNCHANGED EnvVars

InDifficultyNew == resp # None /\ resp.endpoint = "difficulty_new"

\* while n_shift < 29 { d_diff *= 256.0; n_shift += 1; }
ScaleUp ==
    /\ InDifficultyNew
    /\ resp.result.pc = "scale"
    /\ resp.result.n_shift < 29
    /\ resp' = [resp EXCEPT !.result.d_diff = f64_mul_256(@),
                            !.result.n_shift = @ + 1,
                            !.result.steps = @ + 1]
    /\ UNCHANGED EnvVars

\* while n_shift > 29 { d_diff /= 256.0; n_shift -= 1; }
ScaleDown ==
    /\ InDifficultyNew
    /\ resp.result.pc = "scale"
    /\ resp.result.n_shift > 29
    /\ resp' = [resp EXCEPT !.result.d_diff = f64_div_256(@),
                            !.result.n_shift = @ - 1,
                            !.result.steps = @ + 1]
    /\ UNCHANGED EnvVars

\* d_diff
DifficultyReturn ==
    /\ InDifficultyNew
    /\ resp.result.pc = "scale"
    /\ resp.result.n_shift = 29
    /\ resp' = [resp EXCEPT !.result.pc = "done"]
    /\ UNCHANGED EnvVars

\* nBits: the vectors of test_difficulty_new, and shifts from 0 to 255 with
\* coefficients from 0 to 0xffffff
TestVectorBits ==
    {<<23, 5, 56, 148>>, <<26, 12, 42, 18>>, <<25, 38, 34, 34>>, <<29, 0, 196, 40>>,
     <<0, 0, 0, 0>>, <<0, 0, 0, 1>>, <<29, 0, 255, 255>>, <<28, 127, 255, 128>>,
     <<27, 0, 255, 255>>, <<26, 127, 255, 128>>, <<29, 1, 255, 254>>, <<31, 0, 0, 128>>,
     <<30, 0, 255, 255>>, <<30, 0, 255, 0>>, <<31, 0, 0, 255>>}

SampleShifts == {0, 28, 29, 30, 33, 155, 156, 157, 164, 165, 166, 255}

SampleCoefs ==
    {<<0, 0, 0>>, <<0, 0, 1>>, <<0, 0, 3>>, <<0, 255, 255>>, <<88, 230, 96>>,
     <<5, 56, 148>>, <<255, 255, 255>>}

SampleBits == TestVectorBits \cup {<<sh>> \o c : sh \in SampleShifts, c \in SampleCoefs}

NextDifficulty ==
    \/ \E bits \in SampleBits : DifficultyNew(bits)
    \/ ScaleUp
    \/ ScaleDown
    \/ DifficultyReturn

\* Calls of difficulty_new, one loop pass at a time.
SpecDifficulty == Init /\ [][NextDifficulty]_vars

Abs(n) == IF n < 0 THEN -n ELSE n

One == Finite(<<1>> \o Zeros(52), -52)

\* the f64 nearest to d * 2^x (x <= 0), rounded once
ScaledOnce(d, x) ==
    IF d = Infinity THEN Infinity
    ELSE IF d.u + x >= -1074 THEN Finite(d.m, d.u + x)
    ELSE Finite(RoundShift(d.m, -1074 - (d.u + x)), -1074)

\* what the call returns, written as the product (0xffff / coef) * 256^(29 - shift)
\* evaluated in f64
Product(bits) ==
    LET q == f64_div(65535, bits_coef(bits))
        x == 8 * (29 - bits_shift(bits))
    IN IF q = Infinity THEN Infinity
       ELSE IF x >= 0 THEN Finite(q.m, q.u + x)
       ELSE ScaledOnce(q, x)

Returned == InDifficultyNew /\ resp.result.pc = "done"

\* the loops end: each pass brings n_shift one closer to 29
DifficultyTerminates ==
    InDifficultyNew =>
        /\ resp.result.steps + Abs(29 - resp.result.n_shift)
               = Abs(29 - bits_shift(resp.args.bits))
        /\ Returned => resp.result.steps = Abs(29 - bits_shift(resp.args.bits))

DifficultyEdgeCases ==
    Returned =>
        /\ bits_coef(resp.args.bits) = 0 => resp.result.d_diff = Infinity
        /\ resp.args.bits = <<29, 0, 255, 255>> => resp.result.d_diff = One

\* C24 (as written): for every 32-bit nBits, difficulty_new terminates after
\* |29 - shift| scaling steps and returns (0xffff / coef) * 256^(29 - shift);
\* nBits = 0 yields +infinity rather than an error; 0x1d00ffff yields exactly 1.
C24_DifficultyProduct ==
    /\ DifficultyTerminates
    /\ DifficultyEdgeCases
    /\ Returned => resp.result.d_diff = Product(resp.args.bits)

\* C24 (amended): difficulty_new terminates after |29 - shift| scaling steps;
\* a zero coefficient (so nBits = 0) yields +infinity rather than an error;
\* 0x1d00ffff yields exactly 1; and when (0xffff / coef) * 256^(29 - shift) is
\* a normal f64, as it is for every shift up to 155, that product is returned
\* exactly.  Below the normal range each division by 256 rounds, and from
\* shift 166 on the result is 0.
C24_DifficultyNormalRange ==
    /\ DifficultyTerminates
    /\ DifficultyEdgeCases
    /\ Returned /\ bits_coef(resp.args.bits) # 0 =>
          LET q == f64_div(65535, bits_coef(resp.args.bits))
              x == 8 * (29 - bits_shift(resp.args.bits))
          IN /\ bits_shift(resp.args.bits) <= 155 => q.u + x >= -1074
             /\ q.u + x >= -1074 => resp.result.d_diff = Finite(q.m, q.u + x)
             /\ bits_shift(resp.args.bits) >= 166 =>
                   resp.result.d_diff = Finite(Zeros(53), -1074)

\* a call with shift above 29 and a non-zero coefficient returned its
\* quotient scaled down
C24_Witness ==
    /\ Returned
    /\ resp.args.bits = <<33, 5, 56, 148>>
    /\ resp.result.steps = 4
    /\ resp.result.d_diff = Finite(f64_div(65535, 342164).m, f64_div(65535, 342164).u - 32)

-----------------------------------------------------------------------------
(* Requests that run while the indexers write *)

\* A handler takes the mempool lock and the header-chain lock for each call
\* it makes and gives it back when the call returns, so the workers can write
\* between two calls of one handler.  A request part-way is kept in resp.
InHandler(endpoint) ==
    resp # None /\ resp.endpoint = endpoint /\ resp.result.pc # "done"

\* GET .../txs up to find_txid: the location of the cursor
TxsFindCursor(script_str, max_param, after_txid) ==
    /\ resp = None
    /\ resp' = Answered("txs_by_steps",
                        [script_hashes |-> <<script_str>>,
                         max_txs |-> max_txs_or(max_param, rest_default_max_mempool_txs),
                         cursor |-> after_txid],
                        [pc |-> "found",
                         location |-> IF after_txid # None THEN find_txid(after_txid.some)
                                      ELSE Mempool])
    /\ UNCHANGED EnvVars

\* GET .../txs from the match on the location: the pages and the response
TxsReadPages ==
    /\ InHandler("txs_by_steps")
    /\ resp' = [resp EXCEPT !.result =
                   [pc |-> "done", location |-> resp.result.location,
                    served |-> handle_txs_located(resp.args.script_hashes[1], resp.args.max_txs,
                                                  resp.args.cursor, resp.result.location)]]
    /\ UNCHANGED EnvVars

\* the workers, between two calls of a handler
MempoolSyncMeanwhile ==
    /\ \E endpoint \in {"txs_by_steps", "block_height_by_steps"} : InHandler(endpoint)
    /\ MempoolUpdate
    /\ UNCHANGED resp

IndexerApplyMeanwhile ==
    /\ \E endpoint \in {"txs_by_steps", "block_height_by_steps"} : InHandler(endpoint)
    /\ IndexerAdd
    /\ UNCHANGED resp

IndexerRollbackMeanwhile ==
    /\ \E endpoint \in {"txs_by_steps", "block_height_by_steps"} : InHandler(endpoint)
    /\ IndexerUndo
    /\ UNCHANGED resp

NextCursorRace ==
    \/ NodeForward
    \/ IndexerApply
    \/ MempoolSync
    \/ \E sh \in ScriptHashes, c \in {None} \cup {Some(t) : t \in Txids} :
           TxsFindCursor(sh, None, c)
    \/ TxsReadPages
    \/ MempoolSyncMeanwhile
    \/ IndexerApplyMeanwhile

\* The node, the two indexers, and callers of GET .../txs whose handler is
\* interleaved with the indexers.
SpecCursorRace == Init /\ [][NextCursorRace]_vars

\* C25: cursor resolution is atomic with the page read: under any
\* interleaving with the mempool-sync and chain-indexer workers, a cursor
\* classified Mempool is still in the mempool when the mempool page is read,
\* and a cursor classified Chain(h) is still confirmed at h when the chain
\* page is read.  (The workers do not run after the pages are read, so the
\* state of a finished request is the state the pages were read in.)
C25_CursorAtomic ==
    (/\ resp # None
     /\ resp.endpoint = "txs_by_steps"
     /\ resp.result.pc = "done"
     /\ resp.args.cursor # None) =>
        /\ resp.result.location = Mempool => resp.args.cursor.some \in mpTxs
        /\ resp.result.location \notin {Mempool, NotFound} =>
              tx_confirming_block(resp.args.cursor.some) = Some(resp.result.location.height)

-----------------------------------------------------------------------------
(* GET /block-height/{height} while the chain indexer follows a reorg *)

\* a handler that panicked: the request gets no response
Panicked(message) == [status |-> "PANIC", error |-> message]

\* GET /block-height/{height} up to header_by_height
BlockHeightLookup(height) ==
    /\ resp = None
    /\ resp' = Answered("block_height_by_steps", [height |-> height],
                        [pc |-> "looked_up", header |-> header_by_height(height)])
    /\ UNCHANGED EnvVars

\* GET /block-height/{height} from ttl_by_depth on.  best_height() - height
\* is a subtraction of usize: when height is above best_height it panics in a
\* build with overflow checks and wraps to a large number in one without.
BlockHeightTtl ==
    /\ InHandler("block_height_by_steps")
    /\ \E overflow_checks \in BOOLEAN :
          resp' = [resp EXCEPT !.result =
             [pc |-> "done", header |-> resp.result.header,
              response |->
                 IF resp.result.header = None THEN not_found("Block not found")
                 ELSE IF overflow_checks /\ usize_sub_overflows(best_height, resp.args.height)
                 THEN Panicked("attempt to subtract with overflow")
                 ELSE http_message("OK", resp.result.header.some,
                                   ttl_by_depth(Some(resp.args.height)))]]
    /\ UNCHANGED EnvVars

NextTipRace ==
    \/ \E S \in SUBSET TtlTxids : NodeMine(S)
    \/ NodeDisconnect
    \/ IndexerApply
    \/ IndexerRollback
    \/ \E h \in 0..(MaxHeight + 1) : BlockHeightLookup(h)
    \/ BlockHeightTtl
    \/ IndexerApplyMeanwhile
    \/ IndexerRollbackMeanwhile

\* A node that reorgs, the chain indexer, and callers of GET /block-height
\* whose handler is interleaved with the indexer.
SpecTipRace == Init /\ [][NextTipRace]_vars

\* C26: ttl_by_depth never underflows: for every request and every
\* interleaving with tip changes (a reorg that shortens the chain between the
\* height lookup and the TTL computation included), the height handed to
\* ttl_by_depth is at most the best_height it reads, so the subtraction is
\* never negative and a block above the tip is never given the long TTL.
C26_TtlNeverUnderflows ==
    (/\ resp # None
     /\ resp.endpoint = "block_height_by_steps"
     /\ resp.result.pc = "done"
     /\ resp.result.header # None) =>
        /\ resp.args.height <= best_height
        /\ resp.result.response.status = "OK"
        /\ resp.args.height > best_height => resp.result.response.ttl # TTL_LONG

-----------------------------------------------------------------------------
(* The server thread and its Handle *)

\* start: the oneshot channel and the "rest-server" thread.  The state of the
\* thread, of the receiver rx it owns, and of the caller of stop are kept in
\* resp: thread is "spawned", "serving", "exited" or "panicked"; rx is "open"
\* or "dropped"; signal tells whether () was sent; stop is "not_called",
\* "joining", "returned" or "panicked".
start ==
    /\ resp = None
    /\ resp' = Answered("rest_server", <<>>,
                        [thread |-> "spawned", rx |-> "open", signal |-> FALSE,
                         stop |-> "not_called"])
    /\ UNCHANGED EnvVars

ServerIs(thread) ==
    resp # None /\ resp.endpoint = "rest_server" /\ resp.result.thread = thread

\* run_server: the socket is made and listens, and the server is polled
ServerListen ==
    /\ ServerIs("spawned")
    /\ resp' = [resp EXCEPT !.result.thread = "serving"]
    /\ UNCHANGED EnvVars

\* run_server: an expect on the socket fails; the thread unwinds and drops rx
ServerPanic ==
    /\ ServerIs("spawned")
    /\ resp' = [resp EXCEPT !.result.thread = "panicked", !.result.rx = "dropped"]
    /\ UNCHANGED EnvVars

\* run_server: the server future ends with Err(e); it is dropped, and rx with
\* it, "server error" is printed and the thread ends
ServerError ==
    /\ ServerIs("serving")
    /\ resp' = [resp EXCEPT !.result.thread = "exited", !.result.rx = "dropped"]
    /\ UNCHANGED EnvVars

\* run_server: rx.await yields, the graceful shutdown ends the server future
\* with Ok and the thread ends
ServerShutdown ==
    /\ ServerIs("serving")
    /\ resp.result.signal
    /\ resp' = [resp EXCEPT !.result.thread = "exited", !.result.rx = "dropped"]
    /\ UNCHANGED EnvVars

\* Handle::stop: self.tx.send(()).expect("failed to send shutdown signal");
\* send is Err when the receiver was dropped
stop_send(result) ==
    IF result.rx = "dropped" THEN [result EXCEPT !.stop = "panicked"]
    ELSE [result EXCEPT !.signal = TRUE, !.stop = "joining"]

StopSend ==
    /\ resp # None
    /\ resp.endpoint = "rest_server"
    /\ resp.result.stop = "not_called"
    /\ resp' = [resp EXCEPT !.result = stop_send(@)]
    /\ UNCHANGED EnvVars

\* Handle::stop: self.thread.join().expect("REST server failed"); join waits
\* for the thread to end and is Err when it panicked
StopJoin ==
    /\ resp # None
    /\ resp.endpoint = "rest_server"
    /\ resp.result.stop = "joining"
    /\ resp.result.thread \in {"exited", "panicked"}
    /\ resp' = [resp EXCEPT !.result.stop =
                   IF resp.result.thread = "panicked" THEN "panicked" ELSE "returned"]
    /\ UNCHANGED EnvVars

NextServer ==
    \/ NodeForward
    \/ IndexerApply
    \/ MempoolSync
    \/ start
    \/ ServerListen
    \/ ServerPanic
    \/ ServerError
    \/ ServerShutdown
    \/ StopSend
    \/ StopJoin

\* The index, and a server that is started over it and stopped.
SpecServer == Init /\ [][NextServer]_vars

ServerStarted == resp # None /\ resp.endpoint = "rest_server"

\* C27: Handle::stop sends the shutdown signal and then joins the server
\* thread, so stop returns only after the thread has terminated; and stop
\* completes without panicking in every state of the server thread, the
\* server having exited on its own (after a server error) before stop is
\* called included.
C27_StopJoinsAndNeverPanics ==
    ServerStarted =>
        /\ resp.result.stop = "returned" =>
              resp.result.signal /\ resp.result.thread \in {"exited", "panicked"}
        /\ resp.result.stop # "panicked"

-----------------------------------------------------------------------------
(* GET /block/{hash}/txs[/{start_index}] with the start index as written *)

\* start_index.map_or(0u32, |el| el.parse().unwrap_or(0)).max(0u32) as usize
block_txs_start(start_str) ==
    IF start_str = None \/ parse_usize(start_str.some) = None THEN 0
    ELSE parse_usize(start_str.some).some

GetBlockTxsPath(hash, start_str) ==
    /\ resp = None
    /\ resp' = Answered("block_txs_path", [hash |-> hash, start |-> start_str],
                        handle_block_txs(hash, Some(block_txs_start(start_str))))
    /\ UNCHANGED EnvVars

\* the path element absent, no number, and numbers up to past two pages
StartStrings ==
    {None, Some(<<>>), Some(<<"x">>), Some(<<"-", "1">>)}
        \cup {Some(<<DigitChars[n + 1]>>) : n \in 0..(2 * rest_default_chain_txs_per_page + 1)}

NextBlockTxs ==
    \/ NodeForward
    \/ IndexerApply
    \/ MempoolSync
    \/ \E hash \in BlockHashes, start_str \in StartStrings : GetBlockTxsPath(hash, start_str)

\* The node, the two indexers, and callers that page through a block.
SpecBlockTxs == Init /\ [][NextBlockTxs]_vars

\* a served request for the transactions of a block of the indexed chain
BlockTxsServed ==
    /\ resp # None
    /\ resp.endpoint = "block_txs_path"
    /\ resp.args.hash # None
    /\ \E h \in DOMAIN headers : BlockHashOf(h, headers[h]) = resp.args.hash.some

\* the txids of the pages at 0, P, 2P, .. below n, one after the other
RECURSIVE PagesFrom(_, _, _)
PagesFrom(hash, from, n) ==
    IF from >= n THEN <<>>
    ELSE TxidsOf(handle_block_txs(hash, Some(from)).body)
            \o PagesFrom(hash, from + rest_default_chain_txs_per_page, n)

\* C28: GET /block/{hash}/txs/{start} on a known block with n txids and page
\* size P: start >= n gives NotFound (checked before the multiple-of-P
\* check); start < n and not a multiple of P gives BadRequest; otherwise the
\* page is the transactions at positions [start, min(start + P, n)) in block
\* order.  An absent or unparseable start is treated as 0, and the pages at
\* 0, P, 2P, .. cover every position exactly once.
C28_BlockTxsPage ==
    BlockTxsServed =>
        LET txids == resp.args.hash.some.txs
            n == Len(txids)
            P == rest_default_chain_txs_per_page
            written == IF resp.args.start = None THEN None ELSE Requested(resp.args.start)
            start_index == IF written = None THEN 0 ELSE written.some
        IN /\ start_index >= n =>
                 resp.result.status = "NOT_FOUND"
           /\ start_index < n /\ start_index % P # 0 =>
                 resp.result.status = "BAD_REQUEST"
           /\ start_index < n /\ start_index % P = 0 =>
                 /\ resp.result.status = "OK"
                 /\ TxidsOf(resp.result.body)
                       = SubSeq(txids, start_index + 1, Min(start_index + P, n))
           /\ PagesFrom(resp.args.hash, 0, n) = txids

\* the second page of a block of more than P transactions was served
C28_Witness ==
    /\ BlockTxsServed
    /\ Len(resp.args.hash.some.txs) > rest_default_chain_txs_per_page
    /\ resp.args.start = Some(<<DigitChars[rest_default_chain_txs_per_page + 1]>>)
    /\ resp.result.status = "OK"
    /\ resp.result.body # <<>>

-----------------------------------------------------------------------------
(* GET /blocks[/{start_height}] *)

\* BlockHash::default(), the prev_blockhash of the first block of the chain
BlockHash_default == BlockHashOf(0, <<>>)

\* a prev_blockhash that names the block two below
prev_blockhash_skipping(hash) ==
    IF hash.height - 2 \in DOMAIN headers
    THEN BlockHashOf(hash.height - 2, headers[hash.height - 2])
    ELSE BlockHash_default

\* header.prev_blockhash of an indexed block: the hash stored one height below
prev_blockhash(hash) ==
    IF hash.height - 1 \in DOMAIN headers
    THEN BlockHashOf(hash.height - 1, headers[hash.height - 1])
    ELSE BlockHash_default

\* ChainQuery::best_hash: the hash of the tip of the header chain
best_hash ==
    IF headers = <<>> THEN BlockHash_default
    ELSE BlockHashOf(Len(headers), headers[Len(headers)])

\* BlockValue::new
BlockValue_new(blockhm) ==
    [id |-> blockhm.id, height |-> blockhm.height, tx_count |-> blockhm.tx_count,
     previousblockhash |-> IF prev_blockhash(blockhm.id) # BlockHash_default
                           THEN Some(prev_blockhash(blockhm.id)) ELSE None]

rest_default_block_limit == 3

\* blocks: for _ in 0..config.rest_default_block_limit, with `passes` left
RECURSIVE blocks_loop(_, _, _)
blocks_loop(current_hash, passes, values) ==
    IF passes = 0 THEN json_response(values, TTL_SHORT)
    ELSE IF get_block_with_meta(current_hash) = None THEN not_found("Block not found")
    ELSE LET value == BlockValue_new(get_block_with_meta(current_hash).some)
         IN IF prev_blockhash(current_hash) = BlockHash_default
            THEN json_response(Append(values, value), TTL_SHORT)
            ELSE blocks_loop(prev_blockhash(current_hash), passes - 1, Append(values, value))

blocks(start_height) ==
    IF start_height = None THEN blocks_loop(best_hash, rest_default_block_limit, <<>>)
    ELSE IF header_by_height(start_height.some) = None THEN not_found("Block not found")
    ELSE blocks_loop(header_by_height(start_height.some).some, rest_default_block_limit, <<>>)

\* GET /blocks[/{start_height}]:
\* start_height.and_then(|height| height.parse::<usize>().ok())
GetBlocks(start_str) ==
    /\ resp = None
    /\ resp' = Answered("blocks", [start_height |-> start_str],
                        blocks(IF start_str = None THEN None ELSE parse_usize(start_str.some)))
    /\ UNCHANGED EnvVars

\* the path element absent, no number, and heights up to 10
HeightStrings ==
    {None, Some(<<>>), Some(<<"x">>), Some(<<"1", "0">>)}
        \cup {Some(<<DigitChars[n + 1]>>) : n \in 0..9}

NextBlocks ==
    \/ NodeTtl
    \/ IndexerApply
    \/ \E start_str \in HeightStrings : GetBlocks(start_str)

\* A node that grows a long chain, the chain indexer, and callers of GET /blocks.
SpecBlocks == Init /\ [][NextBlocks]_vars

BlocksServed == resp # None /\ resp.endpoint = "blocks"

\* C29: GET /blocks[/{start_height}] returns between 1 and
\* rest_default_block_limit blocks: the first is the block at start_height (the
\* tip when start_height is absent or no number), each following block is the
\* parent of the one before it, heights descend by one, and the list ends at
\* the first block of the chain at the latest.  A start_height with no header
\* gives NotFound.  (Heights count from 1 here; with no block indexed there is
\* no tip.)
C29_BlocksDescend ==
    BlocksServed /\ headers # <<>> =>
        LET written == IF resp.args.start_height = None THEN None
                       ELSE Requested(resp.args.start_height)
            first == IF written = None THEN Len(headers) ELSE written.some
        IN IF first \notin DOMAIN headers
           THEN resp.result.status = "NOT_FOUND"
           ELSE /\ resp.result.status = "OK"
                /\ Len(resp.result.body) >= 1
                /\ Len(resp.result.body) <= rest_default_block_limit
                /\ Len(resp.result.body) = Min(rest_default_block_limit, first)
                /\ \A i \in DOMAIN resp.result.body :
                      /\ resp.result.body[i].height = first - (i - 1)
                      /\ resp.result.body[i].height >= 1
                      /\ resp.result.body[i].id
                            = BlockHashOf(first - (i - 1), headers[first - (i - 1)])
                      /\ i > 1 => resp.result.body[i - 1].previousblockhash
                                     = Some(resp.result.body[i].id)

\* a full list from a start height above the limit, and a list that ends at
\* the first block
C29_Witness ==
    /\ BlocksServed
    /\ resp.args.start_height = Some(<<"5">>)
    /\ resp.result.status = "OK"
    /\ Len(resp.result.body) = rest_default_block_limit
    /\ resp.result.body[1].height = 5

-----------------------------------------------------------------------------
(* The cursor of the history and summary endpoints, as the caller wrote it *)

\* a cursor string: hex digits or not, its length, and the txid its bytes
\* would spell
CursorString(is_hex, len, txid) == [is_hex |-> is_hex, len |-> len, txid |-> txid]

\* a parse that takes hex of any length
Txid_from_hex_any_length(str) == IF str.is_hex THEN Some(str.txid) ELSE None

\* Txid::from_hex(str).ok() and str.parse::<Txid>().ok(): 64 hex digits
Txid_from_hex(str) == IF str.is_hex /\ str.len = 64 THEN Some(str.txid) ELSE None

\* query_params.get("after_txid").and_then(|s| s.parse::<Txid>().ok()), and
\* last_seen_txid.and_then(|txid| Txid::from_hex(txid).ok())
cursor_of(cursor_str) ==
    IF cursor_str = None THEN None ELSE Txid_from_hex(cursor_str.some)

\* GET /{address|scripthash}/{}/txs/chain[/{last_seen_txid}]
handle_txs_chain(script_hash, max_txs, last_seen_txid) ==
    json_response(prepare_txs(ChainHistory(script_hash, last_seen_txid, None, max_txs)), TTL_SHORT)

GetTxsCursor(script_str, cursor_str) ==
    /\ resp = None
    /\ resp' = Answered("txs_cursor", [script_hash |-> script_str, cursor |-> cursor_str],
                        handle_txs(script_str, rest_default_max_mempool_txs,
                                   cursor_of(cursor_str)).response)
    /\ UNCHANGED EnvVars

GetTxsChainCursor(script_str, cursor_str) ==
    /\ resp = None
    /\ resp' = Answered("txs_chain_cursor", [script_hash |-> script_str, cursor |-> cursor_str],
                        handle_txs_chain(script_str, rest_default_chain_txs_per_page,
                                         cursor_of(cursor_str)))
    /\ UNCHANGED EnvVars

GetSummaryCursor(script_str, cursor_str) ==
    /\ resp = None
    /\ resp' = Answered("summary_cursor", [script_hash |-> script_str, cursor |-> cursor_str],
                        handle_summary(script_str, summary_max_txs(None),
                                       cursor_of(cursor_str)).response)
    /\ UNCHANGED EnvVars

\* no cursor, the txid of a transaction or of none, and strings that are no
\* txid: too short, too long, not hex, empty
CursorStrings ==
    {None}
        \cup {Some(CursorString(TRUE, 64, t)) : t \in {1, 3, UnknownTxid}}
        \cup {Some(CursorString(TRUE, 63, 1)), Some(CursorString(TRUE, 66, UnknownTxid)),
              Some(CursorString(FALSE, 64, 3)), Some(CursorString(FALSE, 0, UnknownTxid))}

NextCursor ==
    \/ NodeForward
    \/ IndexerApply
    \/ MempoolSync
    \/ \E sh \in ScriptHashes, c \in CursorStrings : GetTxsCursor(sh, c)
    \/ \E sh \in ScriptHashes, c \in CursorStrings : GetTxsChainCursor(sh, c)
    \/ \E sh \in ScriptHashes, c \in CursorStrings : GetSummaryCursor(sh, c)

\* The node, the two indexers, and callers that write a cursor.
SpecCursor == Init /\ [][NextCursor]_vars

\* a served request whose cursor is written and is no txid
UnparseableCursorServed ==
    /\ resp # None
    /\ resp.endpoint \in {"txs_cursor", "txs_chain_cursor", "summary_cursor"}
    /\ resp.args.cursor # None
    /\ ~(resp.args.cursor.some.is_hex /\ resp.args.cursor.some.len = 64)

====
